---- MODULE Spec2Model ----
(***************************************************************************)
(* Census visualization pipeline: composite join keys, boundary           *)
(* optimization, boundary loaders, join-and-filter and colour mapping.     *)
(*                                                                         *)
(* Each script of the repository is a linear batch procedure; it is        *)
(* modelled as a small state machine over its inputs and results, one      *)
(* specification per pipeline stage:                                       *)
(*   SpecKey   composite key construction (download_census_data.py,        *)
(*             ultra_optimize_boundaries.py, actual_puma_map.py)           *)
(*   SpecColor interpolate_color over the two palettes                     *)
(*   SpecLoad  the four boundary loaders over the artifacts on disk        *)
(*   SpecOpt   the moderate and the ultra boundary optimizers              *)
(*   SpecJoin  prepare_map_data of both dashboards and the static map      *)
(*   SpecDownload  the boundary downloader and its extraction step         *)
(*   SpecTheme     the session state of the unified dashboard              *)
(*   SpecCensus    the census download for several years                   *)
(*   SpecServe     the boundary records served, with the pickle cache      *)
(*   SpecYears     the census files, the year widget and load_census_data  *)
(*   SpecMemo      the memoized prepare_map_data of the unified dashboard  *)
(***************************************************************************)
EXTENDS Integers, Sequences, FiniteSets, TLC

\* an optional value is <<>> (Python's None) or <<v>>
None == <<>>
Some(v) == <<v>>
Get(o) == o[1]

(***************************************************************************)
(* Strings.  A string is a sequence of characters; the decimal digits are  *)
(* the numbers 0..9 and NonDigit stands for any other character.           *)
(***************************************************************************)
NonDigit == 10

IsDigit(c) == c \in 0..9

\* Python str(int) for a natural number
RECURSIVE str(_)
str(n) == IF n < 10 THEN <<n>> ELSE Append(str(n \div 10), n % 10)

\* str.zfill without padding (a mutation of zfill)
zfill_nopad(s, width) == s

\* Python / pandas str.zfill(width): pad with zeros on the left
RECURSIVE zfill(_, _)
zfill(s, width) == IF Len(s) >= width THEN s ELSE zfill(<<0>> \o s, width)

\* Series.astype(int) on a string of digits: base-10 value
RECURSIVE astype_int(_)
astype_int(s) ==
    IF Len(s) = 0 THEN 0
    ELSE 10 * astype_int(SubSeq(s, 1, Len(s) - 1)) + s[Len(s)]

\* DataFrame.to_csv followed by pandas.read_csv: a column all of whose cells
\* are digit strings is inferred as int64 (leading zeros are lost); any other
\* cell stays a string.
read_csv(cell) ==
    IF \A i \in 1..Len(cell) : IsDigit(cell[i]) THEN astype_int(cell) ELSE cell

\* Series.str.extract(r'(\d{5})'): the first five consecutive digits, or None
RECURSIVE extract_5_digits(_)
extract_5_digits(s) ==
    IF Len(s) < 5 THEN None
    ELSE IF \A i \in 1..5 : IsDigit(s[i]) THEN Some(SubSeq(s, 1, 5))
    ELSE extract_5_digits(Tail(s))

(***************************************************************************)
(* Floating point.  Python floats and numpy float64 are IEEE-754 binary64: *)
(* every arithmetic operation returns the exact result rounded to 53       *)
(* significant bits, ties to even.  A finite non-negative double x below   *)
(* 2^20 is represented exactly by the natural number x * 2^80, held as     *)
(* five limbs of 20 bits, least significant first (limb 5 is the integer   *)
(* part).  The representation is exact for every value the colour          *)
(* arithmetic produces from ratios a/d with d < 2^20.  NaN is <<>>.        *)
(***************************************************************************)
MantissaBits == 53
LimbBits == 20
Limbs == 5
Base == 2 ^ LimbBits

NaN == <<>>

FxInt(n) == <<0, 0, 0, 0, n>>

RECURSIVE FxAddFrom(_, _, _, _)
FxAddFrom(x, y, i, carry) ==
    IF i > Limbs THEN <<>>
    ELSE LET s == x[i] + y[i] + carry
         IN <<s % Base>> \o FxAddFrom(x, y, i + 1, s \div Base)

\* exact sum
FxAdd(x, y) == FxAddFrom(x, y, 1, 0)

RECURSIVE FxSubFrom(_, _, _, _)
FxSubFrom(x, y, i, borrow) ==
    IF i > Limbs THEN <<>>
    ELSE LET s == x[i] - y[i] - borrow
         IN IF s < 0 THEN <<s + Base>> \o FxSubFrom(x, y, i + 1, 1)
                     ELSE <<s>> \o FxSubFrom(x, y, i + 1, 0)

\* exact difference x - y, for x >= y
FxSub(x, y) == FxSubFrom(x, y, 1, 0)

RECURSIVE FxMulFrom(_, _, _, _)
FxMulFrom(c, x, i, carry) ==
    IF i > Limbs THEN <<>>
    ELSE LET s == c * x[i] + carry
         IN <<s % Base>> \o FxMulFrom(c, x, i + 1, s \div Base)

\* exact product of a double with a small natural number (c < 2^11)
FxMulInt(c, x) == FxMulFrom(c, x, 1, 0)

\* number of bits of a natural number below Base
RECURSIVE BitLength(_)
BitLength(n) == IF n = 0 THEN 0 ELSE 1 + BitLength(n \div 2)

\* index (from 0) of the most significant set bit; -1 for zero
FxMsb(x) ==
    IF \A i \in 1..Limbs : x[i] = 0 THEN -1
    ELSE LET top == CHOOSE i \in 1..Limbs :
                        x[i] # 0 /\ \A j \in (i + 1)..Limbs : x[j] = 0
         IN (top - 1) * LimbBits + BitLength(x[top]) - 1

FxBit(x, k) == (x[(k \div LimbBits) + 1] \div (2 ^ (k % LimbBits))) % 2

\* some bit below bit k is set
FxLowNonzero(x, k) ==
    \/ \E i \in 1..(k \div LimbBits) : x[i] # 0
    \/ x[(k \div LimbBits) + 1] % (2 ^ (k % LimbBits)) # 0

\* x with the bits below bit k cleared
FxClearLow(x, k) ==
    [i \in 1..Limbs |->
        IF i <= k \div LimbBits THEN 0
        ELSE IF i = (k \div LimbBits) + 1
             THEN (x[i] \div (2 ^ (k % LimbBits))) * (2 ^ (k % LimbBits))
             ELSE x[i]]

FxPow2(k) ==
    [i \in 1..Limbs |-> IF i = (k \div LimbBits) + 1 THEN 2 ^ (k % LimbBits) ELSE 0]

\* IEEE-754 round to nearest, ties to even, of the exact value x (plus a
\* non-zero amount below the last bit when sticky) to 53 significant bits
FxRound(x, sticky) ==
    IF FxMsb(x) < MantissaBits THEN x
    ELSE LET cut == FxMsb(x) - (MantissaBits - 1)
             guard == FxBit(x, cut - 1) = 1
             rest == sticky \/ FxLowNonzero(x, cut - 1)
             odd == FxBit(x, cut) = 1
             down == FxClearLow(x, cut)
         IN IF guard /\ (rest \/ odd) THEN FxAdd(down, FxPow2(cut)) ELSE down

\* n quotient bits of r / d for r < d: <<quotient, remainder>>
RECURSIVE DivBits(_, _, _)
DivBits(r, d, n) ==
    IF n = 0 THEN <<0, r>>
    ELSE LET b == IF 2 * r >= d THEN 1 ELSE 0
             more == DivBits(2 * r - b * d, d, n - 1)
         IN <<b * (2 ^ (n - 1)) + more[1], more[2]>>

\* float division of the integer-valued doubles a and d, 0 <= a <= d, d > 0;
\* 0.0 / 0.0 is NaN
FDiv(a, d) ==
    IF d = 0 THEN NaN
    ELSE LET l4 == DivBits(a % d, d, LimbBits)
             l3 == DivBits(l4[2], d, LimbBits)
             l2 == DivBits(l3[2], d, LimbBits)
             l1 == DivBits(l2[2], d, LimbBits)
         IN FxRound(<<l1[1], l2[1], l3[1], l4[1], a \div d>>, l1[2] # 0)

\* float operations: the exact result, rounded
FAdd(x, y) == FxRound(FxAdd(x, y), FALSE)
FSub(x, y) == FxRound(FxSub(x, y), FALSE)
FMulInt(c, x) == FxRound(FxMulInt(c, x), FALSE)

\* int(x) / astype(int) of a non-negative double: truncation
FInt(x) == x[Limbs]

(***************************************************************************)
(* Composite keys                                                          *)
(***************************************************************************)
\* state FIPS codes and PUMA codes the keys are built from
StateFips == {1, 2, 6, 9, 10, 15, 48, 56}
PumaCodes == {0, 1, 9, 10, 100, 101, 1000, 3700, 9999, 10000, 12345, 99999}

\* TIGER/Line attribute columns: fixed-width, zero-padded strings
STATEFP10(s) == zfill(str(s), 2)
PUMACE10(p) == zfill(str(p), 5)

\* ultra_optimize_boundaries.py: PUMA_FULL_INT
PUMA_FULL_INT(statefp, pumace) == astype_int(statefp \o pumace)

\* download_census_data.py: puma_full_id from the API's 'state' and
\* 'public use microdata area' fields
puma_full_id(state, puma) == zfill(state, 2) \o zfill(puma, 5)

\* actual_puma_map.py: boundary-side PUMA_FULL
actual_boundary_PUMA_FULL(statefp, pumace) == statefp \o pumace

\* actual_puma_map.py: census-side PUMA_FULL from the first CSV column
actual_census_PUMA_FULL(label) == extract_5_digits(label)

\* the first column of HINCP.csv / WAGP.csv for a PUMA, in the forms a
\* census table export can take
CensusLabels(s, p) ==
    { PUMACE10(p),
      STATEFP10(s) \o PUMACE10(p),
      <<NonDigit>> \o STATEFP10(s) \o PUMACE10(p),
      <<NonDigit, NonDigit>> \o PUMACE10(p) \o <<NonDigit>> \o STATEFP10(s) }

(***************************************************************************)
(* Colour mapping (streamlit_app_unified.py)                               *)
(***************************************************************************)
PALETTE_DARK ==
    << <<30, 58, 138>>, <<59, 130, 246>>, <<34, 211, 238>>, <<74, 222, 128>>,
       <<250, 204, 21>> >>

PALETTE_LIGHT ==
    << <<255, 243, 224>>, <<255, 204, 128>>, <<255, 152, 0>>, <<245, 124, 0>>,
       <<230, 81, 0>> >>

Min(a, b) == IF a < b THEN a ELSE b

\* interpolate_color with the two weights exchanged (a mutation)
interpolate_color_swapped(value, palette) ==
    LET n == Len(palette) - 1
        idx == FMulInt(n, value)
        lower_idx == FInt(idx)
        upper_idx == Min(lower_idx + 1, n)
        t == FSub(idx, FxInt(lower_idx))
    IN [i \in 1..3 |->
          FInt(FAdd(FMulInt(palette[lower_idx + 1][i], t),
                    FMulInt(palette[upper_idx + 1][i], FSub(FxInt(1), t))))]

\* interpolate_color(value, palette) for a double value in [0, 1]; palette
\* stops are indexed from 1 here and from 0 in the source
interpolate_color(value, palette) ==
    LET n == Len(palette) - 1
        idx == FMulInt(n, value)
        lower_idx == FInt(idx)
        upper_idx == Min(lower_idx + 1, n)
        t == FSub(idx, FxInt(lower_idx))
    IN [i \in 1..3 |->
          FInt(FAdd(FMulInt(palette[lower_idx + 1][i], FSub(FxInt(1), t)),
                    FMulInt(palette[upper_idx + 1][i], t)))]

VARIABLES
    kState,        \* state FIPS of the PUMA under consideration
    kPuma,         \* PUMA code of the PUMA under consideration
    kApiPadded,    \* the census API returns zero-padded code strings
    kLabel,        \* first column of the PUMA's row in HINCP.csv
    kHincp,        \* income value of the PUMA's row in HINCP.csv
    boundaryKey,   \* PUMA_FULL_INT written by create_ultra_optimized_boundaries
    csvKey,        \* puma_full_id cell written by download_census_puma_data
    censusKey,     \* puma_full_id as read back by load_census_data
    actualKeys,    \* <<boundary PUMA_FULL, census PUMA_FULL>> in create_actual_puma_map
    matched_pumas, \* matched_pumas of create_actual_puma_map
    cPalette,      \* "dark" or "light": the palette of the active theme
    cDen,          \* the normalized values are cNum1 / cDen and cNum2 / cDen
    cNum1,
    cNum2,
    cColors,       \* <<interpolate_color(v1), interpolate_color(v2)>> once computed
    fs,            \* boundary artifacts on disk: "absent", "ok" or "bad" (unreadable)
    lResult,       \* per loader: "not_run", "None" or the artifact it returned
    lReads,        \* per loader: the artifacts it tried to read, in order
    oScript,       \* "moderate" or "ultra": the optimizer that is run
    oCombined,     \* moderate: data/puma_boundaries_combined.gpkg (status, columns, records)
    oFolders,      \* ultra: the tl_2020_*_puma10 folders (shapefile status, records)
    oPc,           \* next step of the optimizer
    oLoaded,       \* the record set as loaded
    oBoundaries,   \* the working record set (boundaries / puma_boundaries)
    oColumns,      \* the columns of the working record set
    oWritten,      \* the record set written by to_file, if any
    oCrs,          \* the coordinate reference system of the boundaries
    oTrace,        \* the optimization steps applied so far, in order
    oMessages,     \* the messages printed about inputs and failures
    jApp,          \* "streamlit_app", "unified" or "final_puma_map"
    jColumn,       \* data_column / selected_metric
    jBoundaries,   \* the boundary records
    jCensus,       \* the rows of the census table
    jStatus,       \* "not_run", "returned", "returned_none" or "raised"
    jResult,       \* map_data returned / the records passed to the map plots
    jStats,        \* final_puma_map: matched_pumas and data_pumas
    jCsv,          \* final_puma_map: census_puma_data.csv ("ok" or "absent")
    jFolders,      \* final_puma_map: boundary folders were found
    jMessages,     \* final_puma_map: the messages printed about inputs
    jPng,          \* final_puma_map: final_puma_economic_map.png was saved
    dZips,         \* download_boundaries: the archive of every state on disk
    dDirs,         \* the extraction folder of every state on disk
    dPc,           \* position of main
    dIdx,          \* position of the for loop in the FIPS table
    dInFlight,     \* number of HTTP requests in flight
    dLog,          \* the calls, requests, sleeps and extractions of this run
    dReturns,      \* what download_puma_shapefile returned for every state
    dSucc,         \* successful_downloads
    dPending,      \* the archives extract_shapefiles has not visited yet
    dRun,          \* number of the run of main
    dDisk0,        \* the archives and folders at the start of this run
    dPrevOk,       \* the previous run downloaded and extracted every state
    tTheme,        \* st.session_state.theme, None before the first run
    tYear,         \* st.session_state.selected_year
    tMetric,       \* st.session_state.selected_metric
    tLast,         \* the widget that caused the last run of the script
    tPrevTheme,    \* the theme before the last run of the script
    tRuns,         \* number of user interactions of the session
    yYears,        \* download_multiple_years: the years argument
    yIdx,          \* position of the for loop in years
    yOutcome,      \* what happened in download_census_puma_data, per year
    yAllData,      \* the keys of all_data
    yCsv,          \* the years whose CSV file was written in this run
    yPc,           \* "loop" or "returned"
    bFs,           \* which boundary artifacts and pickle cache the dashboards find
    bStates,       \* STATEFP10 of the records held by the boundary artifacts
    bNoStatefp,    \* the artifacts that have no STATEFP10 column
    bCacheData,    \* the records pickled in boundaries_unified_v1.pkl
    bWritten,      \* the pickle cache was written by load_boundaries
    bApp,          \* streamlit_app.load_boundaries: "not_run" or "returned"
    bAppResult,    \* what streamlit_app.load_boundaries returned
    bLoads,        \* calls of streamlit_app_unified.load_boundaries so far
    bFrom,         \* what served the last of them: "cache", an artifact, "None"
    bReads,        \* the files the last of them tried to read
    bResult,       \* what the last of them returned
    nApp,          \* the dashboard that runs: "streamlit_app" or "unified"
    nDisk,         \* the year-specific census files: "absent", "ok" or "bad" (unreadable)
    nGeneric,      \* data/census_puma_data.csv: "absent", "ok" or "bad"
    nGenericYear,  \* the generic file has a 'year' column
    nPc,           \* "start", "running" (census data requested) or "stopped" (st.stop)
    nSelected,     \* the year selected on the slider / in the selectbox
    nCensus,       \* what load_census_data did for the selected year
    nMoves,        \* reruns caused by the year widget so far
    mTheme,        \* st.session_state.theme while the map is prepared
    mYear,         \* the year of the selectbox
    mMetric,       \* the metric of the radio
    mCache,        \* the entries of st.cache_data for prepare_map_data
    mShown,        \* map_data handed to create_map by the last run
    mHit,          \* the last call of prepare_map_data was served from the cache
    mRenders       \* runs of main that prepared the map so far

keyVars == <<kState, kPuma, kApiPadded, kLabel, kHincp, boundaryKey, csvKey,
             censusKey, actualKeys, matched_pumas>>

colorVars == <<cPalette, cDen, cNum1, cNum2, cColors>>

loadVars == <<fs, lResult, lReads>>

optVars == <<oScript, oCombined, oFolders, oPc, oLoaded, oBoundaries, oColumns,
            oWritten, oCrs, oTrace, oMessages>>

joinVars == <<jApp, jColumn, jBoundaries, jCensus, jStatus, jResult, jStats,
              jCsv, jFolders, jMessages, jPng>>

downloadVars == <<dZips, dDirs, dPc, dIdx, dInFlight, dLog, dReturns, dSucc, dPending,
                  dRun, dDisk0, dPrevOk>>

themeVars == <<tTheme, tYear, tMetric, tLast, tPrevTheme, tRuns>>

censusVars == <<yYears, yIdx, yOutcome, yAllData, yCsv, yPc>>

serveVars == <<bFs, bStates, bNoStatefp, bCacheData, bWritten, bApp, bAppResult, bLoads, bFrom, bReads, bResult>>

yearsVars == <<nApp, nDisk, nGeneric, nGenericYear, nPc, nSelected, nCensus, nMoves>>

memoVars == <<mTheme, mYear, mMetric, mCache, mShown, mHit, mRenders>>

vars == <<keyVars, colorVars, loadVars, optVars, joinVars, downloadVars, themeVars, censusVars, serveVars, yearsVars, memoVars>>

NotKey == <<colorVars, loadVars, optVars, joinVars, downloadVars, themeVars, censusVars, serveVars, yearsVars, memoVars>>
NotColor == <<keyVars, loadVars, optVars, joinVars, downloadVars, themeVars, censusVars, serveVars, yearsVars, memoVars>>
NotLoad == <<keyVars, colorVars, optVars, joinVars, downloadVars, themeVars, censusVars, serveVars, yearsVars, memoVars>>
NotOpt == <<keyVars, colorVars, loadVars, joinVars, downloadVars, themeVars, censusVars, serveVars, yearsVars, memoVars>>
NotJoin == <<keyVars, colorVars, loadVars, optVars, downloadVars, themeVars, censusVars, serveVars, yearsVars, memoVars>>
NotDownload == <<keyVars, colorVars, loadVars, optVars, joinVars, themeVars, censusVars, serveVars, yearsVars, memoVars>>
NotTheme == <<keyVars, colorVars, loadVars, optVars, joinVars, downloadVars, censusVars, serveVars, yearsVars, memoVars>>
NotCensus == <<keyVars, colorVars, loadVars, optVars, joinVars, downloadVars, themeVars, serveVars, yearsVars, memoVars>>
NotServe == <<keyVars, colorVars, loadVars, optVars, joinVars, downloadVars, themeVars, censusVars, yearsVars, memoVars>>
NotYears == <<keyVars, colorVars, loadVars, optVars, joinVars, downloadVars, themeVars, censusVars, serveVars, memoVars>>
NotMemo == <<keyVars, colorVars, loadVars, optVars, joinVars, downloadVars, themeVars, censusVars, serveVars, yearsVars>>

KeyInit ==
    /\ kState \in StateFips
    /\ kPuma \in PumaCodes
    /\ kApiPadded \in BOOLEAN
    /\ kLabel \in CensusLabels(kState, kPuma)
    /\ kHincp \in {0, 52000}
    /\ boundaryKey = None
    /\ csvKey = None
    /\ censusKey = None
    /\ actualKeys = None
    /\ matched_pumas = None

\* the state of a stage that is not run
KeyIdle ==
    /\ kState = 1
    /\ kPuma = 0
    /\ kApiPadded = TRUE
    /\ kLabel = <<>>
    /\ kHincp = 0
    /\ boundaryKey = None
    /\ csvKey = None
    /\ censusKey = None
    /\ actualKeys = None
    /\ matched_pumas = None

\* create_ultra_optimized_boundaries, step 4: integer matching fields
create_ultra_optimized_boundaries_key ==
    /\ boundaryKey = None
    /\ boundaryKey' = Some(PUMA_FULL_INT(STATEFP10(kState), PUMACE10(kPuma)))
    /\ UNCHANGED <<kState, kPuma, kApiPadded, kLabel, kHincp, csvKey, censusKey,
                   actualKeys, matched_pumas>>
    /\ UNCHANGED NotKey

\* download_census_puma_data: build puma_full_id and save the CSV
download_census_puma_data ==
    /\ csvKey = None
    /\ LET state == IF kApiPadded THEN zfill(str(kState), 2) ELSE str(kState)
           puma == IF kApiPadded THEN zfill(str(kPuma), 5) ELSE str(kPuma)
       IN csvKey' = Some(puma_full_id(state, puma))
    /\ UNCHANGED <<kState, kPuma, kApiPadded, kLabel, kHincp, boundaryKey,
                   censusKey, actualKeys, matched_pumas>>
    /\ UNCHANGED NotKey

\* load_census_data: pd.read_csv of the saved table
load_census_data_key ==
    /\ csvKey # None
    /\ censusKey = None
    /\ censusKey' = Some(read_csv(Get(csvKey)))
    /\ UNCHANGED <<kState, kPuma, kApiPadded, kLabel, kHincp, boundaryKey,
                   csvKey, actualKeys, matched_pumas>>
    /\ UNCHANGED NotKey

\* create_actual_puma_map: keys of both sides, left merge on PUMA_FULL,
\* fillna(0) and the count of rows with HINCP > 0
create_actual_puma_map ==
    /\ actualKeys = None
    /\ LET bkey == actual_boundary_PUMA_FULL(STATEFP10(kState), PUMACE10(kPuma))
           ckey == actual_census_PUMA_FULL(kLabel)
           hincp == IF Some(bkey) = ckey THEN kHincp ELSE 0
       IN /\ actualKeys' = Some(<<Some(bkey), ckey>>)
          /\ matched_pumas' = Some(IF hincp > 0 THEN 1 ELSE 0)
    /\ UNCHANGED <<kState, kPuma, kApiPadded, kLabel, kHincp, boundaryKey,
                   csvKey, censusKey>>
    /\ UNCHANGED NotKey

(***************************************************************************)
(* Colour interpolation as used by prepare_map_data (normalized values     *)
(* (x - min) / (max - min)) and by the legend gradient (i / 4)             *)
(***************************************************************************)
\* largest denominator of the normalized values
MaxDen == 28

Palette(name) == IF name = "dark" THEN PALETTE_DARK ELSE PALETTE_LIGHT

ColorInit ==
    /\ cPalette \in {"dark", "light"}
    /\ cDen \in 1..MaxDen
    /\ cNum1 \in 0..cDen
    /\ cNum2 \in cNum1..cDen
    /\ cColors = None

ColorIdle ==
    /\ cPalette = "dark"
    /\ cDen = 1
    /\ cNum1 = 0
    /\ cNum2 = 0
    /\ cColors = None

\* colors = [interpolate_color(v, palette) for v in norm]
apply_interpolate_color ==
    /\ cColors = None
    /\ cColors' = Some(<<interpolate_color(FDiv(cNum1, cDen), Palette(cPalette)),
                         interpolate_color(FDiv(cNum2, cDen), Palette(cPalette))>>)
    /\ UNCHANGED <<cPalette, cDen, cNum1, cNum2>>
    /\ UNCHANGED NotColor

(***************************************************************************)
(* Boundary loaders                                                        *)
(***************************************************************************)
\* data/puma_boundaries_moderate.gpkg, data/puma_boundaries_combined.gpkg,
\* data/puma_boundaries_optimized.gpkg, data/puma_boundaries_fast.json and
\* data/.cache/boundaries_unified_v1.pkl of the repository, and
\* data/puma_boundaries_combined.gpkg below the scripts folder
Artifacts == {"moderate", "combined", "optimized", "fast_json", "cache",
              "scripts_combined"}

Loaders == {"preprocess", "app_optimized", "app", "unified"}

\* os.path.exists
exists(f, path) == f[path] # "absent"

\* gpd.read_file / pickle.load returns (does not raise)
readable(f, path) == f[path] = "ok"

\* preprocess_boundaries.load_optimized_boundaries(file_path=None)
preprocess_load_optimized_boundaries(f) ==
    LET file_path == IF exists(f, "combined") THEN "combined"
                     ELSE IF exists(f, "scripts_combined") THEN "scripts_combined"
                     ELSE "combined"
        reads1 == IF exists(f, file_path) THEN <<file_path>> ELSE <<>>
    IN IF exists(f, file_path) /\ readable(f, file_path)
       THEN [result |-> file_path, reads |-> reads1]
       ELSE IF exists(f, "optimized")
            THEN IF readable(f, "optimized")
                 THEN [result |-> "optimized", reads |-> Append(reads1, "optimized")]
                 ELSE [result |-> "None", reads |-> Append(reads1, "optimized")]
            ELSE [result |-> "None", reads |-> reads1]

\* streamlit_app.load_optimized_boundaries without the fallback (a mutation)
app_load_optimized_boundaries_no_fallback(f) ==
    IF exists(f, "moderate") /\ readable(f, "moderate")
    THEN [result |-> "moderate", reads |-> <<"moderate">>]
    ELSE [result |-> "None",
          reads |-> IF exists(f, "moderate") THEN <<"moderate">> ELSE <<>>]

\* streamlit_app.load_optimized_boundaries(file_path=None)
app_load_optimized_boundaries(f) ==
    LET file_path == IF exists(f, "moderate") THEN "moderate" ELSE "moderate"
        reads1 == IF exists(f, file_path) THEN <<file_path>> ELSE <<>>
    IN IF exists(f, file_path) /\ readable(f, file_path)
       THEN [result |-> file_path, reads |-> reads1]
       ELSE IF exists(f, "optimized")
            THEN IF readable(f, "optimized")
                 THEN [result |-> "optimized", reads |-> Append(reads1, "optimized")]
                 ELSE [result |-> "None", reads |-> Append(reads1, "optimized")]
            ELSE [result |-> "None", reads |-> reads1]

\* streamlit_app.load_boundaries with the ultra-optimized artifact tried
\* before the combined one (a mutation)
app_load_boundaries_ultra_first(f) ==
    LET chosen == IF exists(f, "moderate") THEN "moderate"
                  ELSE IF exists(f, "optimized") THEN "optimized"
                  ELSE IF exists(f, "combined") THEN "combined"
                  ELSE "None"
    IN IF chosen = "None" THEN [result |-> "None", reads |-> <<>>]
       ELSE IF readable(f, chosen) THEN [result |-> chosen, reads |-> <<chosen>>]
       ELSE [result |-> "None", reads |-> <<chosen>>]

\* streamlit_app.load_boundaries: one if / elif chain inside a single try
app_load_boundaries(f) ==
    LET chosen == IF exists(f, "moderate") THEN "moderate"
                  ELSE IF exists(f, "combined") THEN "combined"
                  ELSE IF exists(f, "optimized") THEN "optimized"
                  ELSE "None"
    IN IF chosen = "None" THEN [result |-> "None", reads |-> <<>>]
       ELSE IF readable(f, chosen) THEN [result |-> chosen, reads |-> <<chosen>>]
       ELSE [result |-> "None", reads |-> <<chosen>>]

\* the for loop of streamlit_app_unified.load_boundaries
RECURSIVE unified_for_fp(_, _, _)
unified_for_fp(f, fps, reads) ==
    IF fps = <<>> THEN [result |-> "None", reads |-> reads]
    ELSE IF ~exists(f, Head(fps)) THEN unified_for_fp(f, Tail(fps), reads)
    ELSE IF readable(f, Head(fps))
         THEN [result |-> Head(fps), reads |-> Append(reads, Head(fps))]
         ELSE unified_for_fp(f, Tail(fps), Append(reads, Head(fps)))

\* streamlit_app_unified.load_boundaries: pickle cache first, then the loop
unified_load_boundaries(f) ==
    IF exists(f, "cache") /\ readable(f, "cache")
    THEN [result |-> "cache", reads |-> <<"cache">>]
    ELSE unified_for_fp(f, <<"fast_json", "moderate", "optimized">>,
                        IF exists(f, "cache") THEN <<"cache">> ELSE <<>>)

LoadInit ==
    /\ fs \in [Artifacts -> {"absent", "ok", "bad"}]
    /\ lResult = [l \in Loaders |-> "not_run"]
    /\ lReads = [l \in Loaders |-> <<>>]

LoadIdle ==
    /\ fs = [a \in Artifacts |-> "absent"]
    /\ lResult = [l \in Loaders |-> "not_run"]
    /\ lReads = [l \in Loaders |-> <<>>]

Returned(l, r) ==
    /\ lResult[l] = "not_run"
    /\ lResult' = [lResult EXCEPT ![l] = r.result]
    /\ lReads' = [lReads EXCEPT ![l] = r.reads]

run_preprocess_load_optimized_boundaries ==
    /\ Returned("preprocess", preprocess_load_optimized_boundaries(fs))
    /\ UNCHANGED fs
    /\ UNCHANGED NotLoad

run_app_load_optimized_boundaries ==
    /\ Returned("app_optimized", app_load_optimized_boundaries(fs))
    /\ UNCHANGED fs
    /\ UNCHANGED NotLoad

run_app_load_boundaries ==
    /\ Returned("app", app_load_boundaries(fs))
    /\ UNCHANGED fs
    /\ UNCHANGED NotLoad

\* a successful load from an artifact writes the pickle cache
run_unified_load_boundaries ==
    /\ Returned("unified", unified_load_boundaries(fs))
    /\ fs' = IF unified_load_boundaries(fs).result \in {"None", "cache"} THEN fs
             ELSE [fs EXCEPT !["cache"] = "ok"]
    /\ UNCHANGED NotLoad

(***************************************************************************)
(* Boundary optimizers (moderate_optimize_boundaries.py,                   *)
(* ultra_optimize_boundaries.py)                                           *)
(*                                                                         *)
(* A geometry is a record: kind ("None", "Empty", "Polygon",               *)
(* "MultiPolygon"), parts (its polygons, each with the area enclosed by    *)
(* its exterior ring and the areas enclosed by its interior rings, in      *)
(* units of 1e-6 square degrees), tol (the simplification tolerance        *)
(* applied, in thousandths of a degree) and prec (the number of decimal    *)
(* places of its coordinates).                                             *)
(***************************************************************************)
\* largest number of records in the combined boundary file
MaxRecords == 2
\* largest number of state boundary folders
MaxFolders == 2

\* decimal places of the coordinates of a TIGER/Line shapefile
TigerPrecision == 6
\* poly.area > 1e-5, in units of 1e-6
TinyPartArea == 10
\* hole_threshold = 0.001, in units of 1e-6
HoleThreshold == 1000
\* tolerance=0.02 and tolerance = 0.005, in thousandths of a degree
UltraTolerance == 20
ModerateTolerance == 5
\* round(x, 3) and precision = 5
UltraPrecision == 3
ModeratePrecision == 5

Poly(ext, holes) == [ext |-> ext, holes |-> holes]
Geom(kind, parts) == [kind |-> kind, parts |-> parts, tol |-> 0, prec |-> TigerPrecision]

\* the geometries of the boundary records
Geometries ==
    { Geom("None", <<>>),
      Geom("Empty", <<>>),
      Geom("Polygon", <<Poly(50000, <<>>)>>),
      Geom("Polygon", <<Poly(50000, <<200, 3000>>)>>),
      Geom("MultiPolygon", <<Poly(50000, <<200>>), Poly(8, <<>>)>>),
      Geom("MultiPolygon", <<Poly(50000, <<3000>>), Poly(7000, <<>>), Poly(5, <<>>)>>),
      Geom("MultiPolygon", <<Poly(9, <<2>>), Poly(4, <<>>)>>) }

RECURSIVE SumSeq(_)
SumSeq(q) == IF q = <<>> THEN 0 ELSE Head(q) + SumSeq(Tail(q))

\* shapely Polygon.area: the exterior area minus the holes
area(poly) == poly.ext - SumSeq(poly.holes)

\* GeoSeries([hole]).area of an interior ring: a LinearRing is a curve and
\* has area 0
ring_area(hole) == 0

is_empty(g) == g.kind = "Empty"

\* GeoSeries.simplify(tolerance, preserve_topology=True) on one geometry
simplify(g, tolerance) == IF g.kind = "None" THEN g ELSE [g EXCEPT !.tol = tolerance]

SelectLargeParts(parts) == SelectSeq(parts, LAMBDA poly : area(poly) > TinyPartArea)

DropHoles(parts) == [i \in 1..Len(parts) |-> Poly(parts[i].ext, <<>>)]

\* ultra_optimize_boundaries.remove_holes
remove_holes(g) ==
    IF g.kind = "None" \/ is_empty(g) THEN g
    ELSE IF g.kind = "Polygon" THEN [g EXCEPT !.parts = DropHoles(g.parts)]
    ELSE LET cleaned == DropHoles(SelectLargeParts(g.parts))
         IN IF Len(cleaned) = 0 THEN g
            ELSE IF Len(cleaned) = 1 THEN [g EXCEPT !.kind = "Polygon", !.parts = cleaned]
            ELSE [g EXCEPT !.parts = cleaned]

\* moderate_optimize_boundaries.remove_small_holes
remove_small_holes(g) ==
    IF g.kind = "Polygon" /\ g.parts[1].holes # <<>>
    THEN LET large_holes ==
                 SelectSeq(g.parts[1].holes, LAMBDA hole : ring_area(hole) > HoleThreshold)
         IN IF large_holes # g.parts[1].holes
            THEN [g EXCEPT !.parts = <<Poly(g.parts[1].ext, large_holes)>>]
            ELSE g
    ELSE g

\* ultra_optimize_boundaries.round_coords
round_coords(g) ==
    IF g.kind = "None" \/ is_empty(g) THEN g
    ELSE [g EXCEPT !.prec = Min(g.prec, UltraPrecision)]

\* moderate_optimize_boundaries.round_coordinates: shapely.ops.transform
\* raises on a missing geometry
round_coordinates_raises(g) == g.kind = "None"

round_coordinates(g) == [g EXCEPT !.prec = Min(g.prec, ModeratePrecision)]

\* boundary records: state and PUMA code by position in the file
Record(i, g) == [state |-> 1, puma |-> 100 * i, key |-> 100000 + 100 * i, geometry |-> g]

RECURSIVE SeqsUpTo(_, _)
SeqsUpTo(S, n) ==
    IF n = 0 THEN {<<>>}
    ELSE SeqsUpTo(S, n - 1) \cup
         {Append(q, x) : q \in {r \in SeqsUpTo(S, n - 1) : Len(r) = n - 1}, x \in S}

Records(geoms) == [i \in 1..Len(geoms) |-> Record(i, geoms[i])]

\* the same operation on the geometry of every record
ApplyGeometry(records, op(_)) ==
    [i \in 1..Len(records) |-> [records[i] EXCEPT !.geometry = op(@)]]

\* hole removal that also drops the records whose geometry is missing or
\* has only tiny parts (a mutation)
ultra_remove_holes_dropping(records) ==
    SelectSeq(ApplyGeometry(records, remove_holes),
              LAMBDA r : r.geometry.kind # "None" /\
                         (r.geometry.kind = "MultiPolygon" =>
                              SelectLargeParts(r.geometry.parts) # <<>>))

\* puma_boundaries['geometry'].apply(remove_holes)
ultra_remove_holes(records) == ApplyGeometry(records, remove_holes)

\* boundaries['geometry'].apply(remove_small_holes)
moderate_remove_small_holes(records) == ApplyGeometry(records, remove_small_holes)

TigerColumns == {"STATEFP10", "PUMACE10", "GEOID10", "NAMELSAD10", "ALAND10",
                 "INTPTLAT10", "INTPTLON10", "geometry"}

UltraEssential == {"STATEFP10", "PUMACE10", "NAMELSAD10", "geometry"}

ModerateEssential == {"STATEFP10", "PUMA_FULL_INT", "NAMELSAD10", "geometry"}

ModerateOptional == {"GEOID10", "INTPTLAT10", "INTPTLON10"}

\* pd.concat of the record sets of the folders whose shapefile could be read
RECURSIVE concat_loaded(_, _)
concat_loaded(folders, n) ==
    IF folders = <<>> THEN <<>>
    ELSE IF Head(folders).status = "ok"
         THEN <<Record(n + 1, Head(folders).geometry)>> \o concat_loaded(Tail(folders), n + 1)
         ELSE concat_loaded(Tail(folders), n)

OptInit ==
    /\ oScript \in {"moderate", "ultra"}
    /\ IF oScript = "moderate"
       THEN /\ oCombined \in
                  [status : {"absent", "ok", "bad"},
                   has_key : BOOLEAN,
                   save_ok : BOOLEAN,
                   geoms : SeqsUpTo(Geometries, MaxRecords)]
            /\ oFolders = <<>>
       ELSE /\ oCombined \in [status : {"absent"}, has_key : {FALSE}, save_ok : BOOLEAN,
                                geoms : {<<>>}]
            /\ oFolders \in SeqsUpTo([status : {"ok", "bad"}, geometry : Geometries],
                                     MaxFolders)
    /\ oCrs \in {"EPSG:4269", "EPSG:4326"}
    /\ oPc = "start"
    /\ oLoaded = None
    /\ oBoundaries = <<>>
    /\ oColumns = {}
    /\ oWritten = None
    /\ oTrace = <<>>
    /\ oMessages = {}

OptIdle ==
    /\ oScript = "none"
    /\ oCombined = [status |-> "absent", has_key |-> FALSE, save_ok |-> TRUE,
                    geoms |-> <<>>]
    /\ oFolders = <<>>
    /\ oCrs = "EPSG:4326"
    /\ oPc = "idle"
    /\ oLoaded = None
    /\ oBoundaries = <<>>
    /\ oColumns = {}
    /\ oWritten = None
    /\ oTrace = <<>>
    /\ oMessages = {}

OptInputs == <<oScript, oCombined, oFolders, oCrs>>

\* moderate_optimize_boundaries: input check and gpd.read_file
moderate_load ==
    /\ oScript = "moderate"
    /\ oPc = "start"
    /\ IF oCombined.status = "ok"
       THEN /\ oPc' = "simplify"
            /\ oLoaded' = Some(Records(oCombined.geoms))
            /\ oBoundaries' = Records(oCombined.geoms)
            /\ oColumns' = TigerColumns \cup
                           (IF oCombined.has_key THEN {"PUMA_FULL_INT"} ELSE {})
            /\ UNCHANGED oMessages
       ELSE /\ oPc' = "returned"
            /\ oMessages' = IF oCombined.status = "absent"
                            THEN {"Input file not found",
                                  "Please run preprocess_boundaries.py first"}
                            ELSE {"Error loading boundaries"}
            /\ UNCHANGED <<oLoaded, oBoundaries, oColumns>>
    /\ UNCHANGED <<OptInputs, oWritten, oTrace>>
    /\ UNCHANGED NotOpt

\* Step 1: simplification
moderate_simplify ==
    /\ oScript = "moderate"
    /\ oPc = "simplify"
    /\ oBoundaries' = [i \in 1..Len(oBoundaries) |->
          [oBoundaries[i] EXCEPT !.geometry = simplify(@, ModerateTolerance)]]
    /\ oPc' = "holes"
    /\ oTrace' = Append(oTrace, "simplify")
    /\ UNCHANGED <<OptInputs, oLoaded, oColumns, oWritten, oMessages>>
    /\ UNCHANGED NotOpt

\* Step 2: small holes
moderate_holes ==
    /\ oScript = "moderate"
    /\ oPc = "holes"
    /\ oBoundaries' = moderate_remove_small_holes(oBoundaries)
    /\ oPc' = "round"
    /\ oTrace' = Append(oTrace, "holes")
    /\ UNCHANGED <<OptInputs, oLoaded, oColumns, oWritten, oMessages>>
    /\ UNCHANGED NotOpt

\* Step 3: coordinate precision; an exception here is not caught
moderate_round ==
    /\ oScript = "moderate"
    /\ oPc = "round"
    /\ IF \E i \in 1..Len(oBoundaries) : round_coordinates_raises(oBoundaries[i].geometry)
       THEN oPc' = "raised" /\ UNCHANGED <<oBoundaries, oTrace>>
       ELSE /\ oPc' = "columns"
            /\ oBoundaries' = ApplyGeometry(oBoundaries, round_coordinates)
            /\ oTrace' = Append(oTrace, "round")
    /\ UNCHANGED <<OptInputs, oLoaded, oColumns, oWritten, oMessages>>
    /\ UNCHANGED NotOpt

\* Step 4: essential columns; a missing column is a KeyError, not caught
moderate_columns ==
    /\ oScript = "moderate"
    /\ oPc = "columns"
    /\ IF ModerateEssential \subseteq oColumns
       THEN /\ oPc' = "save"
            /\ oColumns' = ModerateEssential \cup (ModerateOptional \cap oColumns)
            /\ oTrace' = Append(oTrace, "columns")
       ELSE oPc' = "raised" /\ UNCHANGED <<oColumns, oTrace>>
    /\ UNCHANGED <<OptInputs, oLoaded, oBoundaries, oWritten, oMessages>>
    /\ UNCHANGED NotOpt

\* boundaries.to_file inside try / except
moderate_save ==
    /\ oScript = "moderate"
    /\ oPc = "save"
    /\ oWritten' = IF oCombined.save_ok THEN Some(oBoundaries) ELSE None
    /\ oMessages' = IF oCombined.save_ok THEN oMessages
                    ELSE oMessages \cup {"Error saving optimized boundaries"}
    /\ oPc' = "returned"
    /\ UNCHANGED <<OptInputs, oLoaded, oBoundaries, oColumns, oTrace>>
    /\ UNCHANGED NotOpt

\* create_ultra_optimized_boundaries: glob of the folders, read of every
\* shapefile (an unreadable one is skipped), concat
ultra_load ==
    /\ oScript = "ultra"
    /\ oPc = "start"
    /\ IF concat_loaded(oFolders, 0) = <<>>
       THEN /\ oPc' = "returned"
            /\ oMessages' = IF oFolders = <<>>
                            THEN {"No PUMA boundary folders found."}
                            ELSE {"Error loading folder",
                                  "No PUMA boundaries could be loaded"}
            /\ UNCHANGED <<oLoaded, oBoundaries, oColumns>>
       ELSE /\ oPc' = "simplify"
            /\ oLoaded' = Some(concat_loaded(oFolders, 0))
            /\ oBoundaries' = concat_loaded(oFolders, 0)
            /\ oColumns' = TigerColumns
            /\ oMessages' = IF \E i \in 1..Len(oFolders) : oFolders[i].status = "bad"
                            THEN {"Error loading folder"} ELSE {}
    /\ UNCHANGED <<OptInputs, oWritten, oTrace>>
    /\ UNCHANGED NotOpt

\* 1. simplification
ultra_simplify ==
    /\ oScript = "ultra"
    /\ oPc = "simplify"
    /\ oBoundaries' = [i \in 1..Len(oBoundaries) |->
          [oBoundaries[i] EXCEPT !.geometry = simplify(@, UltraTolerance)]]
    /\ oPc' = "holes"
    /\ oTrace' = Append(oTrace, "simplify")
    /\ UNCHANGED <<OptInputs, oLoaded, oColumns, oWritten, oMessages>>
    /\ UNCHANGED NotOpt

\* 2. all holes
ultra_holes ==
    /\ oScript = "ultra"
    /\ oPc = "holes"
    /\ oBoundaries' = ultra_remove_holes(oBoundaries)
    /\ oPc' = "columns"
    /\ oTrace' = Append(oTrace, "holes")
    /\ UNCHANGED <<OptInputs, oLoaded, oColumns, oWritten, oMessages>>
    /\ UNCHANGED NotOpt

\* 3. essential columns and 4. integer matching fields, with the coordinate
\* rounding left out (a mutation)
ultra_columns_then_save ==
    /\ oScript = "ultra"
    /\ oPc = "columns"
    /\ oColumns' = UltraEssential \cup {"STATEFP10_INT", "PUMACE10_INT", "PUMA_FULL_INT"}
    /\ oBoundaries' = [i \in 1..Len(oBoundaries) |->
          [oBoundaries[i] EXCEPT !.key =
              PUMA_FULL_INT(STATEFP10(oBoundaries[i].state), PUMACE10(oBoundaries[i].puma))]]
    /\ oPc' = "save"
    /\ oTrace' = Append(oTrace, "columns")
    /\ UNCHANGED <<OptInputs, oLoaded, oWritten, oMessages>>
    /\ UNCHANGED NotOpt

\* 3. essential columns and 4. integer matching fields
ultra_columns ==
    /\ oScript = "ultra"
    /\ oPc = "columns"
    /\ oColumns' = UltraEssential \cup {"STATEFP10_INT", "PUMACE10_INT", "PUMA_FULL_INT"}
    /\ oBoundaries' = [i \in 1..Len(oBoundaries) |->
          [oBoundaries[i] EXCEPT !.key =
              PUMA_FULL_INT(STATEFP10(oBoundaries[i].state), PUMACE10(oBoundaries[i].puma))]]
    /\ oPc' = "project"
    /\ oTrace' = Append(oTrace, "columns")
    /\ UNCHANGED <<OptInputs, oLoaded, oWritten, oMessages>>
    /\ UNCHANGED NotOpt

\* 5. WGS84: to_crs only when the boundaries are in another system
ultra_project ==
    /\ oScript = "ultra"
    /\ oPc = "project"
    /\ IF oCrs # "EPSG:4326"
       THEN oCrs' = "EPSG:4326" /\ oTrace' = Append(oTrace, "project")
       ELSE UNCHANGED <<oCrs, oTrace>>
    /\ oPc' = "round"
    /\ UNCHANGED <<oScript, oCombined, oFolders, oLoaded, oBoundaries, oColumns,
                   oWritten, oMessages>>
    /\ UNCHANGED NotOpt

\* 6. coordinate precision
ultra_round ==
    /\ oScript = "ultra"
    /\ oPc = "round"
    /\ oBoundaries' = ApplyGeometry(oBoundaries, round_coords)
    /\ oPc' = "save"
    /\ oTrace' = Append(oTrace, "round")
    /\ UNCHANGED <<OptInputs, oLoaded, oColumns, oWritten, oMessages>>
    /\ UNCHANGED NotOpt

\* puma_boundaries.to_file, outside any try, and the verification read
ultra_save ==
    /\ oScript = "ultra"
    /\ oPc = "save"
    /\ IF oCombined.save_ok
       THEN oWritten' = Some(oBoundaries) /\ oPc' = "returned"
       ELSE oWritten' = None /\ oPc' = "raised"
    /\ UNCHANGED <<OptInputs, oLoaded, oBoundaries, oColumns, oTrace, oMessages>>
    /\ UNCHANGED NotOpt

(***************************************************************************)
(* Join, zero filter and colour columns (streamlit_app.py,                 *)
(* streamlit_app_unified.py, final_puma_map.py)                            *)
(*                                                                         *)
(* A census value is None (a missing value, NaN) or Some(v).               *)
(***************************************************************************)
\* largest number of boundary records
MaxBoundaries == 3
\* largest number of census rows
MaxCensus == 2

Comma == 11
Dollar == 12

\* the boundary records, by position: Alabama, Alaska, California, ...
BoundaryStates == <<1, 2, 6>>
BoundaryRecord(i) ==
    [key |-> BoundaryStates[((i - 1) % 3) + 1] * 100000 + 100 * i,
     state |-> BoundaryStates[((i - 1) % 3) + 1]]

\* a key of the census table that no boundary record has
OtherKey == 7200100

\* (median_household_income, median_earnings) of a census row
CensusValues ==
    { <<None, None>>,
      <<Some(0), Some(30000)>>,
      <<Some(-1), Some(0)>>,
      <<Some(52000), Some(30000)>>,
      <<Some(75000), Some(41000)>> }

CensusRows ==
    { [puma_full_id |-> k, median_household_income |-> v[1], median_earnings |-> v[2]] :
        k \in {BoundaryRecord(i).key : i \in 1..3} \cup {OtherKey},
        v \in CensusValues }

\* the boundary files of 0 to n records
BoundarySets(n) == {[i \in 1..k |-> BoundaryRecord(i)] : k \in 0..n}

\* the rows of right whose key equals the key of the left row, in order;
\* one row of missing values when there is none
MatchingRows(b, right) ==
    LET hits == SelectSeq(right, LAMBDA r : r.puma_full_id = b.key)
    IN IF hits = <<>>
       THEN << [key |-> b.key, state |-> b.state,
                median_household_income |-> None, median_earnings |-> None] >>
       ELSE [i \in 1..Len(hits) |->
                [key |-> b.key, state |-> b.state,
                 median_household_income |-> hits[i].median_household_income,
                 median_earnings |-> hits[i].median_earnings]]

\* boundaries.merge(census, left_on='PUMA_FULL_INT', right_on='puma_full_id',
\* how='left')
RECURSIVE merge_left(_, _)
merge_left(left, right) ==
    IF left = <<>> THEN <<>>
    ELSE MatchingRows(Head(left), right) \o merge_left(Tail(left), right)

\* Series.fillna(0)
fillna_0(v) == IF v = None THEN 0 ELSE Get(v)

Column(row, data_column) ==
    IF data_column = "median_household_income" THEN row.median_household_income
    ELSE row.median_earnings

\* the zero filter with >= in place of > (a mutation)
filter_positive_or_zero(rows, data_column) ==
    SelectSeq(rows, LAMBDA r : fillna_0(Column(r, data_column)) >= 0)

\* map_data[data_column].fillna(0) followed by map_data[map_data[data_column] > 0]
filter_positive(rows, data_column) ==
    SelectSeq(rows, LAMBDA r : fillna_0(Column(r, data_column)) > 0)

\* digits with a comma before every group of three
RECURSIVE group_thousands(_)
group_thousands(digits) ==
    IF Len(digits) <= 3 THEN digits
    ELSE group_thousands(SubSeq(digits, 1, Len(digits) - 3)) \o <<Comma>> \o
         SubSeq(digits, Len(digits) - 2, Len(digits))

\* f"${x:,.0f}" for a positive integral value
format_dollar(x) == <<Dollar>> \o group_thousands(str(x))

RECURSIVE SeqMin(_)
SeqMin(q) == IF Len(q) = 1 THEN q[1] ELSE Min(q[1], SeqMin(Tail(q)))

RECURSIVE SeqMax(_)
SeqMax(q) == IF Len(q) = 1 THEN q[1] ELSE -Min(-q[1], -SeqMax(Tail(q)))

Values(rows, data_column) ==
    [i \in 1..Len(rows) |-> fillna_0(Column(rows[i], data_column))]

\* (map_data[data_column] - min_val) / (max_val - min_val), elementwise
Normalized(rows, data_column) ==
    LET vals == Values(rows, data_column)
    IN [i \in 1..Len(rows) |-> FDiv(vals[i] - SeqMin(vals), SeqMax(vals) - SeqMin(vals))]

\* Series.astype(int) and int() raise on NaN
int_raises(norm) == \E i \in 1..Len(norm) : norm[i] = NaN

\* streamlit_app.prepare_map_data after the None check: the rows and colour
\* columns of map_data
app_map_data(boundaries, census, data_column) ==
    LET rows == filter_positive(merge_left(boundaries, census), data_column)
        norm == Normalized(rows, data_column)
    IN [i \in 1..Len(rows) |->
          [key |-> rows[i].key,
           state |-> rows[i].state,
           value |-> fillna_0(Column(rows[i], data_column)),
           formatted_value |-> format_dollar(fillna_0(Column(rows[i], data_column))),
           red |-> FInt(FSub(FxInt(254), FMulInt(37, norm[i]))),
           green |-> FInt(FSub(FxInt(254), FMulInt(135, norm[i]))),
           blue |-> FInt(FSub(FxInt(254), FMulInt(248, norm[i]))),
           alpha |-> FInt(FAdd(FxInt(180), FMulInt(75, norm[i])))]]

\* streamlit_app_unified.prepare_map_data after the None checks
unified_map_data(boundaries, census, data_column, palette) ==
    LET rows == filter_positive(merge_left(boundaries, census), data_column)
        norm == Normalized(rows, data_column)
    IN [i \in 1..Len(rows) |->
          [key |-> rows[i].key,
           state |-> rows[i].state,
           value |-> fillna_0(Column(rows[i], data_column)),
           formatted_value |-> format_dollar(fillna_0(Column(rows[i], data_column))),
           red |-> interpolate_color(norm[i], palette)[1],
           green |-> interpolate_color(norm[i], palette)[2],
           blue |-> interpolate_color(norm[i], palette)[3],
           alpha |-> 200]]

\* create_final_puma_map: puma_map after the merge and fillna(0)
final_puma_map(boundaries, census) ==
    LET rows == merge_left(boundaries, census)
    IN [i \in 1..Len(rows) |->
          [key |-> rows[i].key,
           state |-> rows[i].state,
           median_household_income |-> fillna_0(rows[i].median_household_income),
           median_earnings |-> fillna_0(rows[i].median_earnings)]]

\* create_final_visualization: puma_map[~puma_map['STATEFP10'].isin(['02', '15'])]
continental_pumas(puma_map) ==
    SelectSeq(puma_map, LAMBDA r : r.state \notin {2, 15})

\* puma_map[puma_map['median_household_income'] > 0]
data_pumas(puma_map) ==
    SelectSeq(puma_map, LAMBDA r : r.median_household_income > 0)

JoinInit ==
    /\ jApp \in {"streamlit_app", "unified", "final_puma_map"}
    /\ jColumn \in {"median_household_income", "median_earnings"}
    /\ jApp = "final_puma_map" => jColumn = "median_household_income"
    /\ jBoundaries \in BoundarySets(MaxBoundaries)
    /\ jCensus \in SeqsUpTo(CensusRows, MaxCensus)
    /\ jCsv \in {"ok", "absent"}
    /\ jFolders \in BOOLEAN
    /\ jApp # "final_puma_map" => jCsv = "ok" /\ jFolders
    /\ jCsv = "absent" => jCensus = <<>>
    /\ ~jFolders => jBoundaries = <<>>
    /\ jStatus = "not_run"
    /\ jResult = <<>>
    /\ jStats = None
    /\ jMessages = {}
    /\ jPng = FALSE

JoinIdle ==
    /\ jApp = "none"
    /\ jColumn = "median_household_income"
    /\ jBoundaries = <<>>
    /\ jCensus = <<>>
    /\ jCsv = "ok"
    /\ jFolders = TRUE
    /\ jStatus = "not_run"
    /\ jResult = <<>>
    /\ jStats = None
    /\ jMessages = {}
    /\ jPng = FALSE

JoinInputs == <<jApp, jColumn, jBoundaries, jCensus, jCsv, jFolders>>

\* streamlit_app.prepare_map_data(boundaries, census_data, data_column)
app_prepare_map_data ==
    /\ jApp = "streamlit_app"
    /\ jStatus = "not_run"
    /\ LET rows == filter_positive(merge_left(jBoundaries, jCensus), jColumn)
       IN IF Len(rows) = 0
          THEN jStatus' = "returned" /\ jResult' = <<>>
          ELSE IF int_raises(Normalized(rows, jColumn))
               THEN jStatus' = "raised" /\ jResult' = <<>>
               ELSE /\ jStatus' = "returned"
                    /\ jResult' = app_map_data(jBoundaries, jCensus, jColumn)
    /\ UNCHANGED <<JoinInputs, jStats, jMessages, jPng>>
    /\ UNCHANGED NotJoin

\* streamlit_app_unified.prepare_map_data(_boundaries, census_df, data_column,
\* palette, _cache_key)
unified_prepare_map_data ==
    /\ jApp = "unified"
    /\ jStatus = "not_run"
    /\ \E theme \in {"dark", "light"} :
         LET rows == filter_positive(merge_left(jBoundaries, jCensus), jColumn)
         IN IF Len(rows) = 0
            THEN jStatus' = "returned_none" /\ jResult' = <<>>
            ELSE IF int_raises(Normalized(rows, jColumn))
                 THEN jStatus' = "raised" /\ jResult' = <<>>
                 ELSE /\ jStatus' = "returned"
                      /\ jResult' = unified_map_data(jBoundaries, jCensus, jColumn,
                                                     Palette(theme))
    /\ UNCHANGED <<JoinInputs, jStats, jMessages, jPng>>
    /\ UNCHANGED NotJoin

\* create_final_puma_map: the census file, the boundary folders and their
\* shapefiles are checked in this order; then the merge, and
\* create_final_visualization, which plots jResult in the three choropleth
\* panels and saves the figure
create_final_puma_map ==
    /\ jApp = "final_puma_map"
    /\ jStatus = "not_run"
    /\ IF jCsv = "absent"
       THEN /\ jMessages' = {"Census data file 'census_puma_data.csv' not found.",
                             "Please run download_census_data.py first."}
            /\ jStatus' = "returned_none"
            /\ UNCHANGED <<jResult, jStats, jPng>>
       ELSE IF ~jFolders
       THEN /\ jMessages' = {"No PUMA boundary folders found.",
                             "Please run download_boundaries.py first."}
            /\ jStatus' = "returned_none"
            /\ UNCHANGED <<jResult, jStats, jPng>>
       ELSE IF jBoundaries = <<>>
       THEN /\ jMessages' = {"No PUMA boundaries could be loaded"}
            /\ jStatus' = "returned_none"
            /\ UNCHANGED <<jResult, jStats, jPng>>
       ELSE LET puma_map == final_puma_map(jBoundaries, jCensus)
            IN /\ jResult' = continental_pumas(puma_map)
               /\ jStats' = Some([matched_pumas |-> Len(data_pumas(puma_map)),
                                  data_pumas |-> data_pumas(puma_map)])
               /\ jStatus' = "returned"
               /\ jPng' = TRUE
               /\ UNCHANGED jMessages
    /\ UNCHANGED JoinInputs
    /\ UNCHANGED NotJoin

(***************************************************************************)
(* Boundary downloader (download_boundaries.py)                            *)
(*                                                                         *)
(* An archive or an extraction folder on disk is "absent", "complete" or   *)
(* "partial" (an archive whose download stopped while its chunks were      *)
(* written, a folder whose extraction stopped half way).                   *)
(***************************************************************************)
\* number of states of the FIPS table that are downloaded
MaxStates == 3
\* number of runs of main
MaxRuns == 2

\* get_state_fips_codes
FipsTable ==
    <<1, 2, 4, 5, 6, 8, 9, 10, 11, 12, 13, 15, 16, 17, 18, 19, 20, 21, 22, 23, 24,
      25, 26, 27, 28, 29, 30, 31, 32, 33, 34, 35, 36, 37, 38, 39, 40, 41, 42, 44,
      45, 46, 47, 48, 49, 50, 51, 53, 54, 55, 56>>

\* all_states = list(state_fips_codes.items())
all_states == SubSeq(FipsTable, 1, MaxStates)

StateSet == {all_states[i] : i \in 1..Len(all_states)}

Event(ev, st) == [ev |-> ev, st |-> st]

\* os.path.exists(output_path) taken to be always false (a mutation)
already_downloaded_never(zips, st) == FALSE

\* os.path.exists(output_path)
already_downloaded(zips, st) == zips[st] # "absent"

\* the loop left at the first failed download (a mutation)
next_index_stop_on_failure(idx, success) ==
    IF success = "True" THEN idx + 1 ELSE Len(all_states) + 1

\* for state_fips, state_name in all_states: the next iteration
next_index(idx, success) == idx + 1

\* the extraction loop left at the first failure (a mutation)
remaining_zip_files_break(pending, zip_file, ok) ==
    IF ok THEN pending \ {zip_file} ELSE {}

\* for zip_file in zip_files: the archives still to visit
remaining_zip_files(pending, zip_file, ok) == pending \ {zip_file}

DownloadInit ==
    /\ dZips = [st \in StateSet |-> "absent"]
    /\ dDirs = [st \in StateSet |-> "absent"]
    /\ dPc = "loop"
    /\ dIdx = 1
    /\ dInFlight = 0
    /\ dLog = <<>>
    /\ dReturns = [st \in StateSet |-> "none"]
    /\ dSucc = 0
    /\ dPending = {}
    /\ dRun = 1
    /\ dDisk0 = [zips |-> [st \in StateSet |-> "absent"],
                 dirs |-> [st \in StateSet |-> "absent"]]
    /\ dPrevOk = FALSE

DownloadIdle ==
    /\ dZips = <<>>
    /\ dDirs = <<>>
    /\ dPc = "idle"
    /\ dIdx = 0
    /\ dInFlight = 0
    /\ dLog = <<>>
    /\ dReturns = <<>>
    /\ dSucc = 0
    /\ dPending = {}
    /\ dRun = 0
    /\ dDisk0 = <<>>
    /\ dPrevOk = FALSE

\* download_puma_shapefile up to the request: the skip branch returns True
\* without a request
download_puma_shapefile_begin ==
    /\ dPc = "loop"
    /\ dIdx <= Len(all_states)
    /\ LET st == all_states[dIdx]
       IN IF already_downloaded(dZips, st)
          THEN /\ dLog' = Append(dLog, Event("call", st))
               /\ dReturns' = [dReturns EXCEPT ![st] = "True"]
               /\ dSucc' = dSucc + 1
               /\ dPc' = "sleep"
               /\ UNCHANGED dInFlight
          ELSE /\ dLog' = dLog \o <<Event("call", st), Event("request", st)>>
               /\ dInFlight' = dInFlight + 1
               /\ dPc' = "request"
               /\ UNCHANGED <<dReturns, dSucc>>
    /\ UNCHANGED <<dZips, dDirs, dIdx, dPending, dRun, dDisk0, dPrevOk>>
    /\ UNCHANGED NotDownload

\* requests.get, raise_for_status, the chunks written to output_path, and the
\* two except clauses
download_puma_shapefile_end ==
    /\ dPc = "request"
    /\ LET st == all_states[dIdx]
       IN \E outcome \in {"ok", "request_error", "stream_error"} :
            /\ dZips' = [dZips EXCEPT ![st] =
                            IF outcome = "ok" THEN "complete"
                            ELSE IF outcome = "stream_error" THEN "partial"
                            ELSE @]
            /\ dReturns' = [dReturns EXCEPT ![st] =
                               IF outcome = "ok" THEN "True" ELSE "False"]
            /\ dSucc' = IF outcome = "ok" THEN dSucc + 1 ELSE dSucc
    /\ dInFlight' = dInFlight - 1
    /\ dPc' = "sleep"
    /\ UNCHANGED <<dDirs, dIdx, dLog, dPending, dRun, dDisk0, dPrevOk>>
    /\ UNCHANGED NotDownload

\* time.sleep(1) and the next iteration of the loop
main_sleep ==
    /\ dPc = "sleep"
    /\ dLog' = Append(dLog, Event("sleep", 0))
    /\ dIdx' = next_index(dIdx, dReturns[all_states[dIdx]])
    /\ dPc' = IF next_index(dIdx, dReturns[all_states[dIdx]]) <= Len(all_states)
              THEN "loop" ELSE "summary"
    /\ UNCHANGED <<dZips, dDirs, dInFlight, dReturns, dSucc, dPending, dRun, dDisk0,
                   dPrevOk>>
    /\ UNCHANGED NotDownload

\* the summary, and the listdir of extract_shapefiles when a download
\* succeeded
main_summary ==
    /\ dPc = "summary"
    /\ IF dSucc > 0
       THEN /\ dPc' = "extract"
            /\ dPending' = {st \in StateSet : dZips[st] # "absent"}
       ELSE /\ dPc' = "done"
            /\ UNCHANGED dPending
    /\ UNCHANGED <<dZips, dDirs, dIdx, dInFlight, dLog, dReturns, dSucc, dRun, dDisk0,
                   dPrevOk>>
    /\ UNCHANGED NotDownload

\* one iteration of the loop of extract_shapefiles, in the order of
\* os.listdir (any order): skip, extraction, or a failure that is printed
extract_shapefiles_one ==
    /\ dPc = "extract"
    /\ \E zip_file \in dPending :
         IF dDirs[zip_file] # "absent"
         THEN /\ dLog' = Append(dLog, Event("skip_extraction", zip_file))
              /\ dPending' = remaining_zip_files(dPending, zip_file, TRUE)
              /\ UNCHANGED dDirs
         ELSE \E ok \in BOOLEAN :
                /\ dLog' = Append(dLog, Event("extract", zip_file))
                /\ dDirs' = [dDirs EXCEPT ![zip_file] =
                                IF dZips[zip_file] = "partial" THEN "absent"
                                ELSE IF ok THEN "complete" ELSE "partial"]
                /\ dPending' = remaining_zip_files(dPending, zip_file,
                                                   ok /\ dZips[zip_file] = "complete")
    /\ UNCHANGED <<dZips, dPc, dIdx, dInFlight, dReturns, dSucc, dRun, dDisk0, dPrevOk>>
    /\ UNCHANGED NotDownload

\* extract_shapefiles returns; main lists the folder and returns
main_return ==
    /\ dPc = "extract"
    /\ dPending = {}
    /\ dPc' = "done"
    /\ UNCHANGED <<dZips, dDirs, dIdx, dInFlight, dLog, dReturns, dSucc, dPending, dRun,
                   dDisk0, dPrevOk>>
    /\ UNCHANGED NotDownload

\* the script is run again on the same disk
main ==
    /\ dPc = "done"
    /\ dRun < MaxRuns
    /\ dRun' = dRun + 1
    /\ dPrevOk' = \A st \in StateSet :
                     /\ dReturns[st] = "True"
                     /\ dZips[st] = "complete"
                     /\ dDirs[st] = "complete"
    /\ dDisk0' = [zips |-> dZips, dirs |-> dDirs]
    /\ dPc' = "loop"
    /\ dIdx' = 1
    /\ dLog' = <<>>
    /\ dReturns' = [st \in StateSet |-> "none"]
    /\ dSucc' = 0
    /\ dPending' = {}
    /\ UNCHANGED <<dZips, dDirs, dInFlight>>
    /\ UNCHANGED NotDownload

(***************************************************************************)
(* Session state of the unified dashboard (streamlit_app_unified.py)       *)
(*                                                                         *)
(* Streamlit runs the whole script once per session start and once per     *)
(* widget interaction; st.session_state survives between the runs.         *)
(***************************************************************************)
\* largest number of widget interactions in a session
MaxReruns == 4

\* the years whose census file exists, as listed by main
Years == {2017, 2018, 2019, 2020, 2021, 2022}

Metrics == {"median_household_income", "median_earnings"}

\* the initialisation without its guard (a mutation)
init_theme_unguarded(theme) == Some("dark")

\* if 'theme' not in st.session_state: st.session_state.theme = 'dark'
init_theme(theme) == IF theme = None THEN Some("dark") ELSE theme

\* st.session_state.theme = 'light' if is_dark else 'dark'
toggled(theme) == IF Get(theme) = "dark" THEN Some("light") ELSE Some("dark")

ThemeInit ==
    /\ tTheme = None
    /\ tYear = None
    /\ tMetric = None
    /\ tLast = "none"
    /\ tPrevTheme = None
    /\ tRuns = 0

ThemeIdle ==
    /\ tTheme = None
    /\ tYear = None
    /\ tMetric = None
    /\ tLast = "idle"
    /\ tPrevTheme = None
    /\ tRuns = 0

\* the first run of the script in a session: no key is in session state
first_run ==
    /\ tLast = "none"
    /\ tTheme' = init_theme(tTheme)
    /\ tYear' = Some(CHOOSE y \in Years : \A z \in Years : y >= z)
    /\ tMetric' = Some("median_household_income")
    /\ tLast' = "first"
    /\ tPrevTheme' = tTheme
    /\ UNCHANGED tRuns
    /\ UNCHANGED NotTheme

\* the theme toggle button is clicked: the run in which st.button returns
\* True sets the theme and calls st.rerun(), which runs the script once more
click_theme_toggle ==
    /\ tLast \notin {"none", "idle"}
    /\ tRuns < MaxReruns
    /\ tTheme' = init_theme(toggled(init_theme(tTheme)))
    /\ tLast' = "theme_toggle"
    /\ tPrevTheme' = tTheme
    /\ tRuns' = tRuns + 1
    /\ UNCHANGED <<tYear, tMetric>>
    /\ UNCHANGED NotTheme

\* another year is chosen in the selectbox
select_year ==
    /\ tLast \notin {"none", "idle"}
    /\ tRuns < MaxReruns
    /\ \E year \in Years \ {Get(tYear)} : tYear' = Some(year)
    /\ tTheme' = init_theme(tTheme)
    /\ tLast' = "year_select"
    /\ tPrevTheme' = tTheme
    /\ tRuns' = tRuns + 1
    /\ UNCHANGED tMetric
    /\ UNCHANGED NotTheme

\* the other metric is chosen in the radio
select_metric ==
    /\ tLast \notin {"none", "idle"}
    /\ tRuns < MaxReruns
    /\ \E selected_metric \in Metrics \ {Get(tMetric)} : tMetric' = Some(selected_metric)
    /\ tTheme' = init_theme(tTheme)
    /\ tLast' = "metric_select"
    /\ tPrevTheme' = tTheme
    /\ tRuns' = tRuns + 1
    /\ UNCHANGED tYear
    /\ UNCHANGED NotTheme

(***************************************************************************)
(* Census download for several years (download_census_data.py)             *)
(***************************************************************************)
\* largest number of years in the years argument
MaxYears == 3

\* the sequences of at most n different years
RECURSIVE YearLists(_)
YearLists(n) ==
    IF n = 0 THEN {<<>>}
    ELSE YearLists(n - 1) \cup
         {Append(q, y) : q \in {l \in YearLists(n - 1) : Len(l) = n - 1},
                         y \in Years}

\* what can happen inside the try of download_census_puma_data: the query
\* raises; the query returns and the conversion raises before to_csv; to_csv
\* raises; the function returns df
Outcomes == {"api_error", "conversion_error", "write_error", "ok"}

\* what download_census_puma_data returns
returned_data(outcome) == IF outcome = "ok" THEN "DataFrame" ELSE "None"

\* all_data[year] = data without the None check (a mutation)
record_year_unchecked(all_data, year, data) == all_data \cup {year}

\* if data is not None: all_data[year] = data
record_year(all_data, year, data) ==
    IF data # "None" THEN all_data \cup {year} ELSE all_data

CensusInit ==
    /\ yYears \in {q \in YearLists(MaxYears) :
                     \A i \in 1..Len(q) : \A j \in 1..Len(q) : q[i] = q[j] => i = j}
    /\ yIdx = 1
    /\ yOutcome = [y \in Years |-> "none"]
    /\ yAllData = {}
    /\ yCsv = {}
    /\ yPc = "loop"

CensusIdle ==
    /\ yYears = <<>>
    /\ yIdx = 0
    /\ yOutcome = <<>>
    /\ yAllData = {}
    /\ yCsv = {}
    /\ yPc = "idle"

\* one iteration of for year in years: the call of
\* download_census_puma_data(year) and the update of all_data
download_multiple_years_iteration ==
    /\ yPc = "loop"
    /\ yIdx <= Len(yYears)
    /\ \E outcome \in Outcomes :
         /\ yOutcome' = [yOutcome EXCEPT ![yYears[yIdx]] = outcome]
         /\ yCsv' = IF outcome = "ok" THEN yCsv \cup {yYears[yIdx]} ELSE yCsv
         /\ yAllData' = record_year(yAllData, yYears[yIdx], returned_data(outcome))
    /\ yIdx' = yIdx + 1
    /\ UNCHANGED <<yYears, yPc>>
    /\ UNCHANGED NotCensus

\* the summary and return all_data
download_multiple_years_return ==
    /\ yPc = "loop"
    /\ yIdx > Len(yYears)
    /\ yPc' = "returned"
    /\ UNCHANGED <<yYears, yIdx, yOutcome, yAllData, yCsv>>
    /\ UNCHANGED NotCensus

(***************************************************************************)
(* The boundary records the dashboards serve (streamlit_app.load_boundaries *)
(* and streamlit_app_unified.load_boundaries with its pickle cache).  A     *)
(* record is its STATEFP10 (a two-digit string, here its number) and the    *)
(* file it was read from.  Writing the pickle cache succeeds.  A further    *)
(* call of load_boundaries stands for a new server process:                 *)
(* st.cache_resource keeps the returned object within one process.          *)
(***************************************************************************)
\* largest number of records in a boundary artifact
MaxPumas == 2
\* calls of streamlit_app_unified.load_boundaries
MaxLoads == 2

\* state FIPS codes of the records: Alabama, Alaska, Hawaii, Wyoming, Puerto Rico
SampleStates == <<1, 2, 15, 56, 72>>

\* CONTINENTAL_STATES / continental_states:
\* [str(i).zfill(2) for i in range(1, 57) if i not in [2, 15]]
CONTINENTAL_STATES == (1..56) \ {2, 15}

\* the STATEFP10 columns of the artifacts: the increasing selections of at
\* most n of the sample states
StateLists(n) ==
    {q \in SeqsUpTo({SampleStates[i] : i \in 1..Len(SampleStates)}, n) :
        \A i \in 1..Len(q) - 1 : q[i] < q[i + 1]}

\* gpd.read_file(fp): the records of an artifact
read_file(fp, states) == [i \in 1..Len(states) |-> [state |-> states[i], src |-> fp]]

\* the filter without the exclusion of Alaska and Hawaii (a mutation)
isin_CONTINENTAL_STATES_all_56(gdf) ==
    SelectSeq(gdf, LAMBDA rec : rec.state \in 1..56)

\* gdf[gdf['STATEFP10'].isin(CONTINENTAL_STATES)]
isin_CONTINENTAL_STATES(gdf) ==
    SelectSeq(gdf, LAMBDA rec : rec.state \in CONTINENTAL_STATES)

\* streamlit_app.load_boundaries: the artifact chosen by the if / elif chain
\* is read and filtered; a read error and a missing STATEFP10 column (KeyError)
\* end in the except branch
app_load_boundaries_records(f, states, nostatefp) ==
    LET chosen == app_load_boundaries(f).result
    IN IF chosen = "None" \/ chosen \in nostatefp THEN None
       ELSE Some(isin_CONTINENTAL_STATES(read_file(chosen, states)))

\* streamlit_app_unified.load_boundaries that does not write the pickle cache
\* (a mutation)
unified_load_boundaries_no_dump(f, cache, states, nostatefp) ==
    LET served == unified_load_boundaries(f)
        gdf == IF served.result \in nostatefp
               THEN read_file(served.result, states)
               ELSE isin_CONTINENTAL_STATES(read_file(served.result, states))
    IN IF served.result = "cache"
       THEN [result |-> Some(cache), reads |-> served.reads, f |-> f, cache |-> cache,
             dumped |-> FALSE]
       ELSE IF served.result = "None"
       THEN [result |-> None, reads |-> served.reads, f |-> f, cache |-> cache,
             dumped |-> FALSE]
       ELSE [result |-> Some(gdf), reads |-> served.reads, f |-> f, cache |-> cache,
             dumped |-> FALSE]

\* streamlit_app_unified.load_boundaries: what it returns, the files it tried,
\* and the files and the pickle cache it leaves
unified_load_boundaries_records(f, cache, states, nostatefp) ==
    LET served == unified_load_boundaries(f)
        gdf == IF served.result \in nostatefp
               THEN read_file(served.result, states)
               ELSE isin_CONTINENTAL_STATES(read_file(served.result, states))
    IN IF served.result = "cache"
       THEN [result |-> Some(cache), reads |-> served.reads, f |-> f, cache |-> cache,
             dumped |-> FALSE]
       ELSE IF served.result = "None"
       THEN [result |-> None, reads |-> served.reads, f |-> f, cache |-> cache,
             dumped |-> FALSE]
       ELSE [result |-> Some(gdf), reads |-> served.reads,
             f |-> [f EXCEPT !["cache"] = "ok"], cache |-> gdf, dumped |-> TRUE]

ServeInit ==
    /\ bFs \in {f \in [Artifacts -> {"absent", "ok", "bad"}] : f["scripts_combined"] = "absent"}
    /\ bStates \in StateLists(MaxPumas)
    /\ bNoStatefp \in SUBSET {"fast_json", "combined"}
    /\ bCacheData = IF bFs["cache"] = "ok" THEN read_file("earlier", bStates) ELSE <<>>
    /\ bWritten = FALSE
    /\ bApp = "not_run"
    /\ bAppResult = None
    /\ bLoads = 0
    /\ bFrom = "None"
    /\ bReads = <<>>
    /\ bResult = None

ServeIdle ==
    /\ bFs = [a \in Artifacts |-> "absent"]
    /\ bStates = <<>>
    /\ bNoStatefp = {}
    /\ bCacheData = <<>>
    /\ bWritten = FALSE
    /\ bApp = "not_run"
    /\ bAppResult = None
    /\ bLoads = 0
    /\ bFrom = "None"
    /\ bReads = <<>>
    /\ bResult = None

\* boundaries = load_boundaries() in streamlit_app.main
run_app_load_boundaries_records ==
    /\ bApp = "not_run"
    /\ bApp' = "returned"
    /\ bAppResult' = app_load_boundaries_records(bFs, bStates, bNoStatefp)
    /\ UNCHANGED <<bFs, bStates, bNoStatefp, bCacheData, bWritten, bLoads, bFrom, bReads,
                   bResult>>
    /\ UNCHANGED NotServe

\* boundaries = load_boundaries() in streamlit_app_unified.main
run_unified_load_boundaries_records ==
    /\ bLoads < MaxLoads
    /\ LET r == unified_load_boundaries_records(bFs, bCacheData, bStates, bNoStatefp)
       IN /\ bResult' = r.result
          /\ bReads' = r.reads
          /\ bFrom' = unified_load_boundaries(bFs).result
          /\ bFs' = r.f
          /\ bCacheData' = r.cache
          /\ bWritten' = (bWritten \/ r.dumped)
    /\ bLoads' = bLoads + 1
    /\ UNCHANGED <<bStates, bNoStatefp, bApp, bAppResult>>
    /\ UNCHANGED NotServe

(***************************************************************************)
(* Census files, the year widget and load_census_data of the two           *)
(* dashboards (streamlit_app.py, streamlit_app_unified.py)                 *)
(***************************************************************************)
\* largest number of year-specific census files in the data folder
MaxCensusFiles == 2
\* reruns caused by the year widget
MaxMoves == 2

\* for year in [2022, 2021, 2020, 2019, 2018, 2017, 2016]
AppYears == 2016..2022
\* for y in [2022, 2021, 2020, 2019, 2018, 2017]
UnifiedYears == 2017..2022

\* data/census_puma_data_<year>.csv and data/census_puma_data_<year>.parquet
CensusFile(kind, year) == [kind |-> kind, year |-> year]

GenericFile == [kind |-> "generic", year |-> 0]

NoFile == [kind |-> "none", year |-> 0]

YearFiles(app) ==
    IF app = "streamlit_app"
    THEN {CensusFile("csv", y) : y \in AppYears}
    ELSE {CensusFile(k, y) : k \in {"parquet", "csv"}, y \in UnifiedYears}

\* the data folders with at most n year-specific files
Disks(app, n) ==
    UNION {{[f \in YearFiles(app) |-> IF f \in S THEN st[f] ELSE "absent"] :
               st \in [S -> {"ok", "bad"}]} :
           S \in {T \in SUBSET YearFiles(app) : Cardinality(T) <= n}}

SetMax(S) == CHOOSE x \in S : \A y \in S : y <= x

SetMin(S) == CHOOSE x \in S : \A y \in S : x <= y

\* available_years of streamlit_app.main
available_years(disk, generic) ==
    LET found == {y \in AppYears : disk[CensusFile("csv", y)] # "absent"}
    IN IF found = {} /\ generic # "absent" THEN {2020} ELSE found

\* years of streamlit_app_unified.main
years(disk, generic) ==
    LET found == {y \in UnifiedYears : disk[CensusFile("parquet", y)] # "absent"
                                       \/ disk[CensusFile("csv", y)] # "absent"}
    IN IF found = {} /\ generic # "absent" THEN {2020} ELSE found

\* the values of st.sidebar.slider(min_value=min(available_years),
\* max_value=max(available_years), step=1)
slider_values(available) == SetMin(available)..SetMax(available)

DataFrame(file, year_col, reads) ==
    [status |-> "DataFrame", from |-> file, year_col |-> year_col, reads |-> reads]

Failed(status, reads) ==
    [status |-> status, from |-> NoFile, year_col |-> None, reads |-> reads]

\* the read of the generic file: df['year'] = year if there is no such column
read_generic(generic, generic_year, year, on_error) ==
    IF generic = "absent" THEN Failed("None", <<>>)
    ELSE IF generic = "bad" THEN Failed(on_error, <<GenericFile>>)
    ELSE DataFrame(GenericFile, IF generic_year THEN None ELSE Some(year), <<GenericFile>>)

\* streamlit_app.load_census_data with the generic file tried first (a
\* mutation)
app_load_census_data_generic_first(disk, generic, generic_year, year) ==
    LET file_path == CensusFile("csv", year)
    IN IF generic # "absent"
       THEN read_generic(generic, generic_year, year, "None")
       ELSE IF disk[file_path] = "absent" THEN Failed("None", <<>>)
       ELSE IF disk[file_path] = "ok" THEN DataFrame(file_path, None, <<file_path>>)
       ELSE Failed("None", <<file_path>>)

\* streamlit_app.load_census_data(year)
app_load_census_data(disk, generic, generic_year, year) ==
    LET file_path == CensusFile("csv", year)
    IN IF disk[file_path] # "absent"
       THEN IF disk[file_path] = "ok" THEN DataFrame(file_path, None, <<file_path>>)
            ELSE Failed("None", <<file_path>>)
       ELSE read_generic(generic, generic_year, year, "None")

\* streamlit_app_unified.load_census_data(year): nothing catches a failing read
unified_load_census_data(disk, generic, generic_year, year) ==
    LET parquet == CensusFile("parquet", year)
        csv == CensusFile("csv", year)
        path == IF disk[parquet] # "absent" THEN parquet ELSE csv
    IN IF disk[path] # "absent"
       THEN IF disk[path] = "ok" THEN DataFrame(path, None, <<path>>)
            ELSE Failed("raised", <<path>>)
       ELSE read_generic(generic, generic_year, year, "raised")

YearsInit ==
    /\ nApp \in {"streamlit_app", "unified"}
    /\ nDisk \in Disks(nApp, MaxCensusFiles)
    /\ nGeneric \in {"absent", "ok", "bad"}
    /\ nGenericYear \in {b \in BOOLEAN : b => nGeneric = "ok"}
    /\ nPc = "start"
    /\ nSelected = None
    /\ nCensus = None
    /\ nMoves = 0

YearsIdle ==
    /\ nApp = "streamlit_app"
    /\ nDisk = <<>>
    /\ nGeneric = "absent"
    /\ nGenericYear = FALSE
    /\ nPc = "start"
    /\ nSelected = None
    /\ nCensus = None
    /\ nMoves = 0

\* the first run of streamlit_app.main: the slider shows max(available_years)
app_main_first_run ==
    /\ nApp = "streamlit_app"
    /\ nPc = "start"
    /\ LET available == available_years(nDisk, nGeneric)
       IN IF available = {}
          THEN nPc' = "stopped" /\ UNCHANGED <<nSelected, nCensus>>
          ELSE /\ nPc' = "running"
               /\ nSelected' = Some(SetMax(available))
               /\ nCensus' = Some(app_load_census_data(nDisk, nGeneric, nGenericYear,
                                                       SetMax(available)))
    /\ UNCHANGED <<nApp, nDisk, nGeneric, nGenericYear, nMoves>>
    /\ UNCHANGED NotYears

\* the user moves the year slider: the script runs again with its value
app_main_move_slider ==
    /\ nApp = "streamlit_app"
    /\ nPc = "running"
    /\ nMoves < MaxMoves
    /\ \E y \in slider_values(available_years(nDisk, nGeneric)) :
          /\ Some(y) # nSelected
          /\ nSelected' = Some(y)
          /\ nCensus' = Some(app_load_census_data(nDisk, nGeneric, nGenericYear, y))
    /\ nMoves' = nMoves + 1
    /\ UNCHANGED <<nApp, nDisk, nGeneric, nGenericYear, nPc>>
    /\ UNCHANGED NotYears

\* the first run of streamlit_app_unified.main: selected_year = years[0]
unified_main_first_run ==
    /\ nApp = "unified"
    /\ nPc = "start"
    /\ LET found == years(nDisk, nGeneric)
       IN IF found = {}
          THEN nPc' = "stopped" /\ UNCHANGED <<nSelected, nCensus>>
          ELSE /\ nPc' = "running"
               /\ nSelected' = Some(SetMax(found))
               /\ nCensus' = Some(unified_load_census_data(nDisk, nGeneric, nGenericYear,
                                                           SetMax(found)))
    /\ UNCHANGED <<nApp, nDisk, nGeneric, nGenericYear, nMoves>>
    /\ UNCHANGED NotYears

\* the user picks another entry of the year selectbox
unified_main_year_select ==
    /\ nApp = "unified"
    /\ nPc = "running"
    /\ nMoves < MaxMoves
    /\ \E y \in years(nDisk, nGeneric) :
          /\ Some(y) # nSelected
          /\ nSelected' = Some(y)
          /\ nCensus' = Some(unified_load_census_data(nDisk, nGeneric, nGenericYear, y))
    /\ nMoves' = nMoves + 1
    /\ UNCHANGED <<nApp, nDisk, nGeneric, nGenericYear, nPc>>
    /\ UNCHANGED NotYears

(***************************************************************************)
(* The memoized prepare_map_data of streamlit_app_unified.main.            *)
(* st.cache_data keys an entry by the function and the hash of every       *)
(* argument whose name does not start with an underscore; the hash of a    *)
(* table of this size covers all its rows, so it is the table here.        *)
(***************************************************************************)
\* runs of main that prepare the map
MaxRenders == 5

\* the years whose census files exist, as main lists them (latest first)
MemoYears == <<2022, 2021, 2020>>

\* load_boundaries(): two boundary records
MemoBoundaries == [i \in 1..2 |-> BoundaryRecord(i)]

\* load_census_data(year): the table of the year
census_of(year) ==
    << [puma_full_id |-> BoundaryRecord(1).key,
        median_household_income |-> Some(52000 + 1000 * (year - 2020)),
        median_earnings |-> Some(30000 + 500 * (year - 2020))],
       [puma_full_id |-> BoundaryRecord(2).key,
        median_household_income |-> Some(75000),
        median_earnings |-> Some(41000)] >>

\* the body of streamlit_app_unified.prepare_map_data
prepare_map_data(boundaries, census_df, data_column, palette) ==
    LET rows == filter_positive(merge_left(boundaries, census_df), data_column)
    IN IF Len(rows) = 0 THEN [status |-> "None", rows |-> <<>>]
       ELSE IF int_raises(Normalized(rows, data_column))
       THEN [status |-> "raised", rows |-> <<>>]
       ELSE [status |-> "returned",
             rows |-> unified_map_data(boundaries, census_df, data_column, palette)]

\* the key of a cache entry if census_df were excluded from hashing as well
\* (a mutation)
cache_data_key_without_census(boundaries, census_df, data_column, palette, cache_key) ==
    <<data_column, palette>>

\* the key of a cache entry of prepare_map_data(_boundaries, census_df,
\* data_column, palette, _cache_key): _boundaries and _cache_key are not hashed
cache_data_key(boundaries, census_df, data_column, palette, cache_key) ==
    <<census_df, data_column, palette>>

MemoInit ==
    /\ mTheme = "dark"
    /\ mYear = MemoYears[1]
    /\ mMetric = "median_household_income"
    /\ mCache = {}
    /\ mShown = None
    /\ mHit = FALSE
    /\ mRenders = 0

MemoIdle == MemoInit

\* lines 663-674 of main with the widget values of the run: is_dark, palette,
\* census = load_census_data(year), cache_key, and map_data =
\* prepare_map_data(...) through @st.cache_data: an entry with the key of the
\* call is returned, otherwise the body runs and its value is stored (an
\* exception is not)
Render(theme, year, metric) ==
    LET is_dark == theme = "dark"
        cache_key == <<year, metric, is_dark>>
        key == cache_data_key(MemoBoundaries, census_of(year), metric, Palette(theme),
                              cache_key)
    IN /\ mTheme' = theme
       /\ mYear' = year
       /\ mMetric' = metric
       /\ mHit' = (\E e \in mCache : e.key = key)
       /\ IF mHit'
          THEN /\ mShown' = Some((CHOOSE e \in mCache : e.key = key).value)
               /\ mCache' = mCache
          ELSE /\ mShown' = Some(prepare_map_data(MemoBoundaries, census_of(year), metric,
                                                  Palette(theme)))
               /\ mCache' = IF Get(mShown').status = "raised" THEN mCache
                            ELSE mCache \cup {[key |-> key, value |-> Get(mShown')]}
       /\ mRenders' = mRenders + 1
       /\ UNCHANGED NotMemo

\* the first run of the session
render_first_run ==
    /\ mRenders = 0
    /\ Render(mTheme, mYear, mMetric)

\* the theme button: the theme is switched and st.rerun() runs main again
render_theme_toggle ==
    /\ mRenders \in 1..(MaxRenders - 1)
    /\ Render(Get(toggled(Some(mTheme))), mYear, mMetric)

\* another year is chosen in the selectbox
render_year_select ==
    /\ mRenders \in 1..(MaxRenders - 1)
    /\ \E i \in 1..Len(MemoYears) :
          /\ MemoYears[i] # mYear
          /\ Render(mTheme, MemoYears[i], mMetric)

\* the other metric is chosen on the radio
render_metric_select ==
    /\ mRenders \in 1..(MaxRenders - 1)
    /\ \E m \in Metrics :
          /\ m # mMetric
          /\ Render(mTheme, mYear, m)

(***************************************************************************)
(* Specifications: one per pipeline stage; the stages that are not run     *)
(* stay idle.                                                              *)
(***************************************************************************)
KeyNext ==
    \/ create_ultra_optimized_boundaries_key
    \/ download_census_puma_data
    \/ load_census_data_key
    \/ create_actual_puma_map

KeyStart == KeyInit /\ ColorIdle /\ LoadIdle /\ OptIdle /\ JoinIdle /\ DownloadIdle /\ ThemeIdle /\ CensusIdle /\ ServeIdle /\ YearsIdle /\ MemoIdle

SpecKey == KeyStart /\ [][KeyNext]_vars

ColorNext == apply_interpolate_color

ColorStart == ColorInit /\ KeyIdle /\ LoadIdle /\ OptIdle /\ JoinIdle /\ DownloadIdle /\ ThemeIdle /\ CensusIdle /\ ServeIdle /\ YearsIdle /\ MemoIdle

SpecColor == ColorStart /\ [][ColorNext]_vars

LoadNext ==
    \/ run_preprocess_load_optimized_boundaries
    \/ run_app_load_optimized_boundaries
    \/ run_app_load_boundaries
    \/ run_unified_load_boundaries

LoadStart == LoadInit /\ KeyIdle /\ ColorIdle /\ OptIdle /\ JoinIdle /\ DownloadIdle /\ ThemeIdle /\ CensusIdle /\ ServeIdle /\ YearsIdle /\ MemoIdle

SpecLoad == LoadStart /\ [][LoadNext]_vars

OptNext ==
    \/ moderate_load
    \/ moderate_simplify
    \/ moderate_holes
    \/ moderate_round
    \/ moderate_columns
    \/ moderate_save
    \/ ultra_load
    \/ ultra_simplify
    \/ ultra_holes
    \/ ultra_columns
    \/ ultra_project
    \/ ultra_round
    \/ ultra_save

OptStart == OptInit /\ KeyIdle /\ ColorIdle /\ LoadIdle /\ JoinIdle /\ DownloadIdle /\ ThemeIdle /\ CensusIdle /\ ServeIdle /\ YearsIdle /\ MemoIdle

SpecOpt == OptStart /\ [][OptNext]_vars

JoinNext ==
    \/ app_prepare_map_data
    \/ unified_prepare_map_data
    \/ create_final_puma_map

JoinStart == JoinInit /\ KeyIdle /\ ColorIdle /\ LoadIdle /\ OptIdle /\ DownloadIdle /\ ThemeIdle /\ CensusIdle /\ ServeIdle /\ YearsIdle /\ MemoIdle

SpecJoin == JoinStart /\ [][JoinNext]_vars

DownloadNext ==
    \/ download_puma_shapefile_begin
    \/ download_puma_shapefile_end
    \/ main_sleep
    \/ main_summary
    \/ extract_shapefiles_one
    \/ main_return
    \/ main

DownloadStart ==
    DownloadInit /\ KeyIdle /\ ColorIdle /\ LoadIdle /\ OptIdle /\ JoinIdle /\ ThemeIdle /\ CensusIdle /\ ServeIdle /\ YearsIdle /\ MemoIdle

SpecDownload == DownloadStart /\ [][DownloadNext]_vars

ThemeNext ==
    \/ first_run
    \/ click_theme_toggle
    \/ select_year
    \/ select_metric

ThemeStart ==
    ThemeInit /\ KeyIdle /\ ColorIdle /\ LoadIdle /\ OptIdle /\ JoinIdle /\ DownloadIdle /\ CensusIdle /\ ServeIdle /\ YearsIdle /\ MemoIdle

SpecTheme == ThemeStart /\ [][ThemeNext]_vars

CensusNext ==
    \/ download_multiple_years_iteration
    \/ download_multiple_years_return

CensusStart ==
    CensusInit /\ KeyIdle /\ ColorIdle /\ LoadIdle /\ OptIdle /\ JoinIdle /\ DownloadIdle /\ ServeIdle /\ YearsIdle /\ MemoIdle
               /\ ThemeIdle

SpecCensus == CensusStart /\ [][CensusNext]_vars

ServeNext ==
    \/ run_app_load_boundaries_records
    \/ run_unified_load_boundaries_records

ServeStart ==
    ServeInit /\ KeyIdle /\ ColorIdle /\ LoadIdle /\ OptIdle /\ JoinIdle /\ DownloadIdle /\ YearsIdle /\ MemoIdle
              /\ ThemeIdle /\ CensusIdle

SpecServe == ServeStart /\ [][ServeNext]_vars

YearsNext ==
    \/ app_main_first_run
    \/ app_main_move_slider
    \/ unified_main_first_run
    \/ unified_main_year_select

YearsStart ==
    YearsInit /\ KeyIdle /\ ColorIdle /\ LoadIdle /\ OptIdle /\ JoinIdle /\ DownloadIdle /\ MemoIdle
              /\ ThemeIdle /\ CensusIdle /\ ServeIdle

SpecYears == YearsStart /\ [][YearsNext]_vars

MemoNext ==
    \/ render_first_run
    \/ render_theme_toggle
    \/ render_year_select
    \/ render_metric_select

MemoStart ==
    MemoInit /\ KeyIdle /\ ColorIdle /\ LoadIdle /\ OptIdle /\ JoinIdle /\ DownloadIdle
             /\ ThemeIdle /\ CensusIdle /\ ServeIdle /\ YearsIdle

SpecMemo == MemoStart /\ [][MemoNext]_vars

(***************************************************************************)
(* Properties                                                              *)
(***************************************************************************)
\* C1: in the dashboard pipeline the boundary-side key PUMA_FULL_INT and the
\* census-side key puma_full_id, after the CSV round trip, are the same
\* integer, and that integer is state * 100000 + puma.
KeysComputedIdentically ==
    /\ boundaryKey # None => Get(boundaryKey) = kState * 100000 + kPuma
    /\ censusKey # None => Get(censusKey) = kState * 100000 + kPuma
    /\ (boundaryKey # None /\ censusKey # None) => boundaryKey = censusKey

\* a PUMA whose codes need padding on both parts, unpadded by the API, has
\* been keyed on both sides
KeysComputedWitness ==
    /\ boundaryKey # None
    /\ censusKey # None
    /\ kState < 10
    /\ kPuma < 10000
    /\ ~kApiPadded

\* C2: in create_actual_puma_map a PUMA with a boundary record and a census
\* row with non-zero income has the same PUMA_FULL on both sides and is
\* counted in matched_pumas.
ActualKeysMatch ==
    (actualKeys # None /\ kHincp > 0) =>
        /\ Get(actualKeys)[1] = Get(actualKeys)[2]
        /\ matched_pumas = Some(1)

\* C4: interpolate_color maps 0.0 to the first palette stop and 1.0 to the
\* last palette stop, for the dark and for the light palette.
EndsMapToPaletteEnds ==
    cColors # None =>
        /\ cNum1 = 0 => Get(cColors)[1] = Palette(cPalette)[1]
        /\ cNum2 = cDen => Get(cColors)[2] = Palette(cPalette)[Len(Palette(cPalette))]

\* both ends of the range have been interpolated in one run
EndsWitness ==
    /\ cColors # None
    /\ cNum1 = 0
    /\ cNum2 = cDen
    /\ cDen > 1

\* C5: for the light palette, whose channels are non-increasing over its
\* stops, v1 <= v2 implies that every channel of interpolate_color(v1) is at
\* least the same channel of interpolate_color(v2).
LightPaletteMonotone ==
    (cColors # None /\ cPalette = "light") =>
        \A i \in 1..3 : Get(cColors)[1][i] >= Get(cColors)[2][i]

\* the first existing artifact in the order moderate, combined, ultra-optimized
FirstPresent(f) ==
    IF exists(f, "moderate") THEN "moderate"
    ELSE IF exists(f, "combined") THEN "combined"
    ELSE IF exists(f, "optimized") THEN "optimized"
    ELSE "None"

\* C7: streamlit_app.load_boundaries reads the first present artifact in the
\* order moderate > combined > ultra-optimized and nothing else; when the
\* present artifacts are readable it returns that artifact, in particular the
\* combined one when the moderate one is absent, and it returns None only
\* when all three are absent.
LoadBoundariesPriority ==
    lResult["app"] # "not_run" =>
        /\ lReads["app"] =
              IF FirstPresent(fs) = "None" THEN <<>> ELSE <<FirstPresent(fs)>>
        /\ (\A a \in {"moderate", "combined", "optimized"} : fs[a] # "bad") =>
              /\ lResult["app"] = FirstPresent(fs)
              /\ lResult["app"] = "None" <=>
                    \A a \in {"moderate", "combined", "optimized"} : fs[a] = "absent"

\* the moderate artifact is absent, the combined and the ultra-optimized
\* ones exist, and the combined one was loaded
LoadBoundariesWitness ==
    /\ fs["moderate"] = "absent"
    /\ fs["combined"] = "ok"
    /\ fs["optimized"] = "ok"
    /\ lResult["app"] = "combined"

\* C8 as stated: every loader returns boundaries whenever at least one of the
\* combined, moderate and ultra-optimized artifacts exists and is readable
\* (for the unified loader: with no pickle cache present).
EveryLoaderCoversThreeTiers ==
    \A l \in Loaders :
        (/\ lResult[l] # "not_run"
         /\ \E a \in {"combined", "moderate", "optimized"} : fs[a] = "ok"
         /\ (l = "unified" => "cache" \notin {lReads[l][i] : i \in 1..Len(lReads[l])}))
        => lResult[l] # "None"

\* C8 amended: each loader returns boundaries whenever one of the artifacts
\* of its own candidate list exists and is readable; for
\* streamlit_app.load_boundaries the list is the first existing artifact only.
EveryLoaderCoversOwnCandidates ==
    /\ (/\ lResult["preprocess"] # "not_run"
        /\ \/ fs[IF exists(fs, "combined") THEN "combined" ELSE "scripts_combined"] = "ok"
           \/ fs["optimized"] = "ok")
       => lResult["preprocess"] # "None"
    /\ (/\ lResult["app_optimized"] # "not_run"
        /\ \E a \in {"moderate", "optimized"} : fs[a] = "ok")
       => lResult["app_optimized"] # "None"
    /\ (/\ lResult["unified"] # "not_run"
        /\ \E a \in {"fast_json", "moderate", "optimized"} : fs[a] = "ok")
       => lResult["unified"] # "None"
    /\ (/\ lResult["app"] # "not_run"
        /\ FirstPresent(fs) # "None"
        /\ fs[FirstPresent(fs)] = "ok")
       => lResult["app"] # "None"

\* every loader has run on a disk where the moderate artifact is unreadable
\* and the ultra-optimized one is readable; the loaders with a per-artifact
\* fallback returned the ultra-optimized artifact
OwnCandidatesWitness ==
    /\ \A l \in Loaders : lResult[l] # "not_run"
    /\ fs["moderate"] = "bad"
    /\ fs["combined"] = "absent"
    /\ fs["scripts_combined"] = "absent"
    /\ fs["fast_json"] = "absent"
    /\ lResult["preprocess"] = "optimized"
    /\ lResult["app_optimized"] = "optimized"
    /\ lResult["unified"] = "optimized"
    /\ lResult["app"] = "None"

\* C6: the record set written by moderate_optimize_boundaries and by
\* create_ultra_optimized_boundaries has exactly as many records as the
\* record set that was loaded, and they are the same records in the same
\* order: no record is dropped or duplicated.
RecordCountPreserved ==
    oWritten # None =>
        /\ Len(Get(oWritten)) = Len(Get(oLoaded))
        /\ \A i \in 1..Len(Get(oWritten)) :
              /\ Get(oWritten)[i].state = Get(oLoaded)[i].state
              /\ Get(oWritten)[i].puma = Get(oLoaded)[i].puma

\* two records were written, one of which lost a hole or a part
RecordCountWitness ==
    /\ oWritten # None
    /\ Len(Get(oWritten)) = 2
    /\ \E i \in 1..2 : Get(oWritten)[i].geometry.parts # Get(oLoaded)[i].geometry.parts

\* the values of the selected column that the census table holds for a key
CensusValuesOf(k) ==
    {fillna_0(Column(jCensus[i], jColumn)) :
        i \in {n \in 1..Len(jCensus) : jCensus[n].puma_full_id = k}}

\* C3: with 2 boundary records and a census table that covers exactly one of
\* the two keys, with a positive value, prepare_map_data of either dashboard
\* returns without error exactly 1 record, whose formatted_value is the value
\* as dollars with thousands separators and no decimals.
EndToEndOneRecord ==
    (/\ jApp \in {"streamlit_app", "unified"}
     /\ jStatus # "not_run"
     /\ Len(jBoundaries) = 2
     /\ Len(jCensus) = 1
     /\ jCensus[1].puma_full_id \in {jBoundaries[1].key, jBoundaries[2].key}
     /\ fillna_0(Column(jCensus[1], jColumn)) > 0)
    => /\ jStatus = "returned"
       /\ Len(jResult) = 1
       /\ jResult[1].key = jCensus[1].puma_full_id
       /\ fillna_0(Column(jCensus[1], jColumn)) = 52000 =>
             jResult[1].formatted_value = <<Dollar, 5, 2, Comma, 0, 0, 0>>

\* C9: every record returned by prepare_map_data has a strictly positive
\* value in the selected column, which the census table holds for its key,
\* and its key is the key of a boundary record.
JoinedRecordsPositive ==
    (jApp \in {"streamlit_app", "unified"} /\ jStatus = "returned") =>
        \A i \in 1..Len(jResult) :
            /\ jResult[i].value > 0
            /\ jResult[i].value \in CensusValuesOf(jResult[i].key)
            /\ \E b \in 1..Len(jBoundaries) : jBoundaries[b].key = jResult[i].key

\* two boundary records are returned with their positive values and a third
\* one, without a positive value, is not
JoinedRecordsWitness ==
    /\ jApp \in {"streamlit_app", "unified"}
    /\ jStatus = "returned"
    /\ Len(jBoundaries) = 3
    /\ Len(jResult) = 2
    /\ jResult[1].key # jResult[2].key

\* C10 as stated: no record with median_household_income equal to 0 is in
\* the record set passed to the map plots of the static pipeline.
NoZeroIncomePlotted ==
    (jApp = "final_puma_map" /\ jStatus = "returned") =>
        \A i \in 1..Len(jResult) : jResult[i].median_household_income # 0

\* C11: for every non-empty set of joined, zero-filtered records (a single
\* record and records of equal value included) prepare_map_data returns
\* without error, with a colour for every record; in streamlit_app the record
\* of the smallest value has the colour of normalized 0 and the record of the
\* largest value the colour of normalized 1.
NormalizationDefined ==
    (/\ jApp \in {"streamlit_app", "unified"}
     /\ jStatus # "not_run"
     /\ filter_positive(merge_left(jBoundaries, jCensus), jColumn) # <<>>)
    => /\ jStatus = "returned"
       /\ Len(jResult) = Len(filter_positive(merge_left(jBoundaries, jCensus), jColumn))
       /\ \A i \in 1..Len(jResult) :
             /\ jResult[i].red \in 0..255
             /\ jResult[i].green \in 0..255
             /\ jResult[i].blue \in 0..255
             /\ (jApp = "streamlit_app" /\ jResult[i].value = SeqMin([k \in 1..Len(jResult) |-> jResult[k].value]))
                   => jResult[i].red = 254
             /\ (jApp = "streamlit_app" /\ jResult[i].value = SeqMax([k \in 1..Len(jResult) |-> jResult[k].value]))
                   => jResult[i].red = 217

\* C12: in both optimizers a failure at any step is caught, reported with a
\* printed message and turned into an early return; no run ends with an
\* uncaught exception.
FailuresCaughtAndReported ==
    /\ oPc # "raised"
    /\ (oPc = "returned" /\ oWritten = None) => oMessages # {}

IsPrefix(p, q) == Len(p) <= Len(q) /\ p = SubSeq(q, 1, Len(p))

\* C14 as stated: a run of either optimizer that writes its output has
\* applied simplification, hole removal, coordinate rounding, projection and
\* column retention, each before the next.
StepsInSpecOrder ==
    oWritten # None =>
        oTrace = <<"simplify", "holes", "round", "project", "columns">>

\* C14 amended: create_ultra_optimized_boundaries applies simplification,
\* hole removal, column retention, projection (only when the boundaries are
\* not in EPSG:4326) and coordinate rounding in this order;
\* moderate_optimize_boundaries applies simplification, hole removal,
\* coordinate rounding and column retention in this order and never
\* projects; a run that writes its output has applied all of its steps.
StepsInScriptOrder ==
    /\ oScript = "ultra" =>
          /\ \/ IsPrefix(oTrace, <<"simplify", "holes", "columns", "project", "round">>)
             \/ IsPrefix(oTrace, <<"simplify", "holes", "columns", "round">>)
          /\ oWritten # None =>
                /\ oCrs = "EPSG:4326"
                /\ oTrace \in {<<"simplify", "holes", "columns", "project", "round">>,
                               <<"simplify", "holes", "columns", "round">>}
    /\ oScript = "moderate" =>
          /\ IsPrefix(oTrace, <<"simplify", "holes", "round", "columns">>)
          /\ oWritten # None => oTrace = <<"simplify", "holes", "round", "columns">>

\* the ultra optimizer wrote boundaries that it had to project
StepsInScriptOrderWitness ==
    /\ oScript = "ultra"
    /\ oWritten # None
    /\ oTrace = <<"simplify", "holes", "columns", "project", "round">>

\* C13: when the required input of a script is missing (the combined file for
\* moderate_optimize_boundaries, the boundary folders for
\* create_ultra_optimized_boundaries, the census CSV or the boundary folders
\* for create_final_puma_map) the run returns early, has printed an
\* instruction to run the prerequisite script first and has written no
\* output artifact.
MissingInputIsTerminal ==
    /\ (oScript = "moderate" /\ oPc # "start" /\ oCombined.status = "absent") =>
          /\ oPc = "returned"
          /\ oWritten = None
          /\ "Please run preprocess_boundaries.py first" \in oMessages
    /\ (oScript = "ultra" /\ oPc # "start" /\ oFolders = <<>>) =>
          /\ oPc = "returned"
          /\ oWritten = None
          /\ "Please run download_boundaries.py first." \in oMessages
    /\ (jApp = "final_puma_map" /\ jStatus # "not_run" /\ jCsv = "absent") =>
          /\ jStatus = "returned_none"
          /\ ~jPng
          /\ "Please run download_census_data.py first." \in jMessages
    /\ (jApp = "final_puma_map" /\ jStatus # "not_run" /\ jCsv = "ok" /\ ~jFolders) =>
          /\ jStatus = "returned_none"
          /\ ~jPng
          /\ "Please run download_boundaries.py first." \in jMessages

\* the states of the events of one kind in the log of this run, in order
LogStates(ev) ==
    LET q == SelectSeq(dLog, LAMBDA e : e.ev = ev)
    IN [i \in 1..Len(q) |-> q[i].st]

\* C15: the downloader calls download_puma_shapefile for the states in the
\* order of the FIPS table, each state exactly once per run whether or not an
\* earlier download failed, with at most one request in flight and a sleep
\* between any two consecutive requests.
DownloadsSequential ==
    /\ dInFlight \in {0, 1}
    /\ IsPrefix(LogStates("call"), all_states)
    /\ dPc \in {"summary", "extract", "done"} => LogStates("call") = all_states
    /\ \A i \in 1..Len(dLog) : \A j \in (i + 1)..Len(dLog) :
          (dLog[i].ev = "request" /\ dLog[j].ev = "request") =>
              \E k \in (i + 1)..(j - 1) : dLog[k].ev = "sleep"
    /\ dPc = "request" =>
          /\ dInFlight = 1
          /\ dLog[Len(dLog)] = Event("request", all_states[dIdx])

\* the download of the first state failed and the later states were
\* requested all the same
DownloadsSequentialWitness ==
    /\ dPc = "done"
    /\ dReturns[all_states[1]] = "False"
    /\ LogStates("request") = all_states

Range(q) == {q[i] : i \in 1..Len(q)}

\* C18: download_puma_shapefile returns True only when a complete archive is
\* at the output path, and a download that fails while its chunks are written
\* leaves no file at the output path.
TrueOnlyForCompleteArchive ==
    \A st \in StateSet :
        /\ dReturns[st] = "True" => dZips[st] = "complete"
        /\ dZips[st] # "partial"

\* C19: when the archive of a state exists at the start of a run,
\* download_puma_shapefile makes no request for it, leaves the file as it was
\* and returns True; a run that follows a run in which every state was
\* downloaded and extracted makes no request, extracts nothing and leaves
\* every archive and folder unchanged.
DownloadIdempotent ==
    /\ \A st \in StateSet :
          dDisk0.zips[st] # "absent" =>
              /\ st \notin Range(LogStates("request"))
              /\ dZips[st] = dDisk0.zips[st]
              /\ st \in Range(LogStates("call")) => dReturns[st] = "True"
    /\ dPrevOk =>
          /\ LogStates("request") = <<>>
          /\ LogStates("extract") = <<>>
          /\ dZips = dDisk0.zips
          /\ dDirs = dDisk0.dirs

\* a second run after a fully successful one has finished: every download and
\* every extraction was skipped
DownloadIdempotentWitness ==
    /\ dRun = 2
    /\ dPrevOk
    /\ dPc = "done"
    /\ LogStates("call") = all_states
    /\ Range(LogStates("skip_extraction")) = StateSet

\* C20: extract_shapefiles runs only after every state has been attempted and
\* only if a download or skip succeeded; it visits every archive in the
\* folder, skips those whose folder exists and extracts the others; a failed
\* extraction does not keep the remaining archives from being extracted.
ExtractionAfterDownloads ==
    /\ dPc = "extract" => LogStates("call") = all_states /\ dSucc > 0
    /\ \A i \in 1..Len(dLog) : \A j \in 1..Len(dLog) :
          (dLog[i].ev \in {"extract", "skip_extraction"} /\ dLog[j].ev \in {"call", "request"})
              => j < i
    /\ dSucc = 0 => LogStates("extract") = <<>> /\ LogStates("skip_extraction") = <<>>
    /\ \A st \in StateSet :
          /\ st \in Range(LogStates("skip_extraction")) => dDisk0.dirs[st] # "absent"
          /\ st \in Range(LogStates("extract")) =>
                dDisk0.dirs[st] = "absent" /\ dZips[st] # "absent"
          /\ dDisk0.dirs[st] # "absent" => dDirs[st] = dDisk0.dirs[st]
    /\ (dPc = "done" /\ dSucc > 0) =>
          \A st \in StateSet :
              dZips[st] # "absent" =>
                  IF dDisk0.dirs[st] # "absent"
                  THEN st \in Range(LogStates("skip_extraction"))
                  ELSE st \in Range(LogStates("extract"))

\* the extraction of one archive failed and another archive was extracted
\* after it in the same run
ExtractionAfterDownloadsWitness ==
    /\ dPc = "done"
    /\ \E i \in 1..Len(dLog) : \E j \in (i + 1)..Len(dLog) :
          /\ dLog[i].ev = "extract"
          /\ dDirs[dLog[i].st] # "complete"
          /\ dLog[j].ev = "extract"
          /\ dDirs[dLog[j].st] = "complete"

\* C16: the theme is 'dark' after the first run of a session, every click on
\* the theme toggle flips it, a run caused by the year or the metric widget
\* leaves it as it was, and it is always 'dark' or 'light'.
ThemePersisted ==
    /\ tLast \notin {"none", "idle"} => tTheme \in {Some("dark"), Some("light")}
    /\ tLast = "first" => tTheme = Some("dark")
    /\ tLast = "theme_toggle" =>
          /\ tTheme # tPrevTheme
          /\ tTheme = toggled(tPrevTheme)
    /\ tLast \in {"year_select", "metric_select"} => tTheme = tPrevTheme

\* the theme was toggled to light and then survived a change of the year
ThemePersistedWitness ==
    /\ tLast = "year_select"
    /\ tTheme = Some("light")
    /\ tYear # Some(2022)

\* C17: download_multiple_years attempts every year of its argument in order
\* whatever happened to the earlier ones; the keys of the returned dictionary
\* are exactly the years for which download_census_puma_data returned a
\* DataFrame; a year whose API query failed is not a key and no CSV file was
\* written for it.
YearsAttemptedAndRecorded ==
    /\ \A i \in 1..Len(yYears) : (yOutcome[yYears[i]] # "none") <=> (i < yIdx)
    /\ yPc = "returned" => \A i \in 1..Len(yYears) : yOutcome[yYears[i]] # "none"
    /\ yAllData = {y \in Years : returned_data(yOutcome[y]) = "DataFrame"}
    /\ \A y \in Years :
          yOutcome[y] = "api_error" => y \notin yAllData /\ y \notin yCsv

\* the query of the first year failed, the later years were downloaded and
\* returned
YearsAttemptedWitness ==
    /\ yPc = "returned"
    /\ Len(yYears) = 3
    /\ yOutcome[yYears[1]] = "api_error"
    /\ yAllData = {yYears[2], yYears[3]}
    /\ yCsv = yAllData

\* C21: after the hole-removal step of create_ultra_optimized_boundaries every
\* record whose geometry is a non-empty Polygon or MultiPolygon has no
\* interior ring in any of its parts, a MultiPolygon all of whose parts have
\* an area of at most 1e-5 included.
UltraHolesAllRemoved ==
    (oScript = "ultra" /\ "holes" \in Range(oTrace)) =>
        \A i \in 1..Len(oBoundaries) :
            oBoundaries[i].geometry.kind \in {"Polygon", "MultiPolygon"} =>
                \A p \in 1..Len(oBoundaries[i].geometry.parts) :
                    oBoundaries[i].geometry.parts[p].holes = <<>>

\* C22: after the hole-removal step of moderate_optimize_boundaries every part
\* of every Polygon and MultiPolygon keeps exactly the holes it was loaded
\* with whose enclosed area is larger than hole_threshold, and has lost the
\* holes below the threshold.
ModerateHolesByThreshold ==
    (oScript = "moderate" /\ "holes" \in Range(oTrace)) =>
        \A i \in 1..Len(oBoundaries) :
            \A p \in 1..Len(oBoundaries[i].geometry.parts) :
                oBoundaries[i].geometry.parts[p].holes =
                    SelectSeq(Get(oLoaded)[i].geometry.parts[p].holes,
                              LAMBDA hole : hole > HoleThreshold)

\* C23: every channel of interpolate_color(v, palette) for a normalized value
\* v = num / den in [0, 1] is an integer in 0..255 that lies between the
\* values of that channel at the two palette stops neighbouring v.
ChannelsBetweenStops ==
    cColors # None =>
        \A k \in 1..2 : \A i \in 1..3 :
            LET palette == Palette(cPalette)
                n == Len(palette) - 1
                num == IF k = 1 THEN cNum1 ELSE cNum2
                lower_idx == (num * n) \div cDen
                upper_idx == Min(lower_idx + 1, n)
                a == palette[lower_idx + 1][i]
                b == palette[upper_idx + 1][i]
                c == Get(cColors)[k][i]
            IN /\ c \in 0..255
               /\ Min(a, b) <= c
               /\ c <= (IF a >= b THEN a ELSE b)

\* C24: a loader that has run returned the first artifact of its priority
\* order that exists and can be read, so a read error on an existing artifact
\* is followed by an attempt on the next existing one; None is returned only
\* when no existing artifact can be read, after all of them were attempted.
\* (streamlit_app_unified.load_boundaries: when it was not served by the cache.)
ReadErrorFallsBack ==
    \A l \in Loaders :
        (lResult[l] \notin {"not_run", "cache"}) =>
            LET order == IF l = "app" THEN <<"moderate", "combined", "optimized">>
                         ELSE IF l = "unified" THEN <<"fast_json", "moderate", "optimized">>
                         ELSE IF l = "app_optimized" THEN <<"moderate", "optimized">>
                         ELSE IF exists(fs, "combined") THEN <<"combined", "optimized">>
                         ELSE <<"scripts_combined", "optimized">>
                present == SelectSeq(order, LAMBDA a : exists(fs, a))
                good == SelectSeq(present, LAMBDA a : readable(fs, a))
            IN IF good = <<>>
               THEN lResult[l] = "None" /\ Range(present) \subseteq Range(lReads[l])
               ELSE lResult[l] = Head(good)

\* the first artifact in the order fast.json, moderate, optimized that exists
\* and can be read, or "None"
FirstReadable(f) ==
    LET good == SelectSeq(<<"fast_json", "moderate", "optimized">>,
                          LAMBDA a : exists(f, a) /\ readable(f, a))
    IN IF good = <<>> THEN "None" ELSE Head(good)

\* C25 as stated: a call of streamlit_app_unified.load_boundaries that found
\* a cache file that unpickles read nothing but the cache and returned its
\* content; a call that found a cache file it could not unpickle returned the
\* records of the first readable artifact and left the cache holding these
\* records, continental-filtered.
CacheReadThroughFiltered ==
    (bLoads > 0 /\ bReads # <<>> /\ bReads[1] = "cache") =>
        IF bFrom = "cache"
        THEN bReads = <<"cache">> /\ bResult = Some(bCacheData)
        ELSE /\ bFrom = FirstReadable(bFs)
             /\ bFrom # "None" =>
                   /\ bResult = Some(isin_CONTINENTAL_STATES(read_file(bFrom, bStates)))
                   /\ bFs["cache"] = "ok"
                   /\ bCacheData = Get(bResult)

\* C25 amended: the same, with the continental filter applied only when the
\* artifact has a STATEFP10 column, and None returned (the cache left as it
\* was) when no artifact can be read.
CacheReadThrough ==
    (bLoads > 0 /\ bReads # <<>> /\ bReads[1] = "cache") =>
        IF bFrom = "cache"
        THEN bReads = <<"cache">> /\ bResult = Some(bCacheData)
        ELSE /\ bFrom = FirstReadable(bFs)
             /\ bFrom # "None" =>
                   /\ bResult = Some(IF bFrom \in bNoStatefp
                                     THEN read_file(bFrom, bStates)
                                     ELSE isin_CONTINENTAL_STATES(read_file(bFrom, bStates)))
                   /\ bFs["cache"] = "ok"
                   /\ bCacheData = Get(bResult)
             /\ bFrom = "None" => bResult = None /\ bFs["cache"] = "bad"

\* a corrupt cache file was replaced by the filtered records of the moderate
\* artifact, read after a failed attempt on fast.json
CacheReadThroughWitness ==
    /\ bLoads = 1
    /\ bReads = <<"cache", "fast_json", "moderate">>
    /\ bFs["cache"] = "ok"
    /\ bStates = <<2, 56>>
    /\ bCacheData = <<[state |-> 56, src |-> "moderate"]>>
    /\ bResult = Some(bCacheData)

\* C29: every record returned by streamlit_app.load_boundaries has a state
\* FIPS code in 01..56 other than 02 and 15, whichever artifact was loaded;
\* so has every record returned by streamlit_app_unified.load_boundaries
\* from an artifact with a STATEFP10 column, and from the pickle cache when
\* the cache was written by load_boundaries from such an artifact.
ContinentalOnly ==
    /\ (bApp = "returned" /\ bAppResult # None) =>
          \A i \in 1..Len(Get(bAppResult)) :
              Get(bAppResult)[i].state \in (1..56) \ {2, 15}
    /\ (bLoads > 0 /\ bResult # None) =>
          \A i \in 1..Len(Get(bResult)) :
              (Get(bResult)[i].src \in {"fast_json", "moderate", "optimized"} \ bNoStatefp) =>
                  Get(bResult)[i].state \in (1..56) \ {2, 15}

\* the second call was served from the cache the first call wrote, and the
\* dashboard of streamlit_app.py loaded the same artifact: Alaska is gone from
\* both
ContinentalOnlyWitness ==
    /\ bStates = <<1, 2>>
    /\ bLoads = 2
    /\ bFrom = "cache"
    /\ bWritten
    /\ bResult = Some(<<[state |-> 1, src |-> "moderate"]>>)
    /\ bAppResult = Some(<<[state |-> 1, src |-> "moderate"]>>)

\* C30: the record set returned by prepare_map_data of either dashboard has
\* at most one record per boundary record, so it is never longer than the
\* boundary record set (coverage = len(map_data) / len(boundaries) <= 100%).
AtMostOneRecordPerBoundary ==
    (jApp \in {"streamlit_app", "unified"} /\ jStatus = "returned") =>
        /\ Len(jResult) <= Len(jBoundaries)
        /\ \A i \in 1..Len(jBoundaries) :
              Cardinality({n \in 1..Len(jResult) : jResult[n].key = jBoundaries[i].key}) <= 1

\* C27: in streamlit_app.main, with no generic census_puma_data.csv, the year
\* selected on the slider is a year whose file census_puma_data_<year>.csv
\* exists, and load_census_data did not return None for it.
SelectableYearsHaveData ==
    (nApp = "streamlit_app" /\ nPc = "running" /\ nGeneric = "absent") =>
        /\ nDisk[CensusFile("csv", Get(nSelected))] # "absent"
        /\ Get(nCensus).status # "None"

\* the year-specific file load_census_data looks at first: in the unified
\* dashboard the .parquet file before the .csv file
YearSpecific(app, disk, year) ==
    IF app = "unified" /\ disk[CensusFile("parquet", year)] # "absent"
    THEN CensusFile("parquet", year)
    ELSE CensusFile("csv", year)

\* C28 as stated: if a year-specific file of the selected year exists, the
\* data comes from it and the generic file is not read; otherwise, if the
\* generic file exists, the data comes from it, with a 'year' column of the
\* requested year added when it has none; None is returned only when neither
\* exists.
YearSpecificPreferred ==
    nPc = "running" =>
        LET year == Get(nSelected)
            specific == YearSpecific(nApp, nDisk, year)
            census == Get(nCensus)
        IN IF nDisk[specific] # "absent"
           THEN census.status = "DataFrame" /\ census.from = specific
                /\ census.reads = <<specific>>
           ELSE IF nGeneric # "absent"
           THEN census.status = "DataFrame" /\ census.from = GenericFile
                /\ census.year_col = (IF nGenericYear THEN None ELSE Some(year))
           ELSE census.status = "None"

\* C28 amended: the same when the file that is looked at can be read; when it
\* cannot, no other file is tried: streamlit_app.load_census_data returns
\* None and streamlit_app_unified.load_census_data raises.
YearSpecificPreferredIfReadable ==
    nPc = "running" =>
        LET year == Get(nSelected)
            specific == YearSpecific(nApp, nDisk, year)
            census == Get(nCensus)
            on_error == IF nApp = "unified" THEN "raised" ELSE "None"
        IN IF nDisk[specific] # "absent"
           THEN /\ census.reads = <<specific>>
                /\ IF nDisk[specific] = "ok"
                   THEN census.status = "DataFrame" /\ census.from = specific
                   ELSE census.status = on_error
           ELSE IF nGeneric # "absent"
           THEN /\ census.reads = <<GenericFile>>
                /\ IF nGeneric = "ok"
                   THEN /\ census.status = "DataFrame" /\ census.from = GenericFile
                        /\ census.year_col = (IF nGenericYear THEN None ELSE Some(year))
                   ELSE census.status = on_error
           ELSE census.status = "None" /\ census.reads = <<>>

\* with the files of 2022 and 2020 and a generic file on disk, the dashboard
\* of streamlit_app.py read the file of 2020 after the user moved the slider,
\* and not the generic one
YearSpecificPreferredWitness ==
    /\ nApp = "streamlit_app"
    /\ nGeneric = "ok"
    /\ nMoves = 1
    /\ nSelected = Some(2020)
    /\ nDisk[CensusFile("csv", 2022)] = "ok"
    /\ Get(nCensus).from = CensusFile("csv", 2020)
    /\ Get(nCensus).reads = <<CensusFile("csv", 2020)>>

\* C26: the map data handed to create_map by a run of the unified dashboard
\* equals what prepare_map_data computes without the cache for the census
\* table of the selected year, the selected metric and the palette of the
\* current theme, after any sequence of year changes, metric changes and
\* theme toggles.
NeverStale ==
    mShown # None =>
        Get(mShown) = prepare_map_data(MemoBoundaries, census_of(mYear), mMetric,
                                       Palette(mTheme))

\* the user went to 2021 and the light theme and came back: the last run was
\* served from the entry stored by the first run
NeverStaleWitness ==
    /\ mHit
    /\ mRenders = 4
    /\ mYear = 2022
    /\ mTheme = "dark"
    /\ Cardinality(mCache) = 3

====
